---- MODULE Spec2Model ----
(***************************************************************************)
(* A model of the wedding RSVP application (routes.py, models.py,          *)
(* send_whatsapp.py): the venue cache, the RSVP workflow and the admin     *)
(* CRUD handlers, as state machines over the five tables.                  *)
(*                                                                         *)
(* Text is a sequence of one-character strings, so that str.strip() and    *)
(* "x or None" are computed and not assumed.  A row is a record; a table   *)
(* is a sequence of rows in insertion order.  Columns no handler reads     *)
(* back (created_at, updated_at, image_filename) are left out of the      *)
(* rows.                                                                   *)
(***************************************************************************)
EXTENDS Integers, Sequences, FiniteSets, TLC

VARIABLES
    now,                \* datetime.utcnow(), in seconds
    ticks,              \* how often the clock has advanced
    venue_info,         \* table venue_info
    venue_cache,        \* routes._venue_cache: <<>> is {}, <<v>> is {'venue': v}
    venue_cache_time,   \* routes._venue_cache_time, NoTime is None
    guest,              \* table guest
    guest_group,        \* table guest_group
    presente,           \* table presente (GiftRegistry)
    admin_user,         \* table admin_user
    session,            \* TRUE when 'admin_id' is in the session
    lastOp,             \* the last request handled: its inputs and outcome
    reqs,               \* requests in flight (interleaved specifications)
    cache_fetched_at,   \* when the cached snapshot was read from the table
    foreign_keys        \* TRUE when the database enforces FOREIGN KEY

vars == <<now, ticks, venue_info, venue_cache, venue_cache_time, guest,
          guest_group, presente, admin_user, session, lastOp, reqs,
          cache_fetched_at, foreign_keys>>

-----------------------------------------------------------------------------
(* Bounds *)

MaxTicks == 4
MaxReqs == 3
MaxConcTicks == 1
MaxGuests == 2
MaxGroups == 2
MaxGifts == 2
MaxRecipients == 3

(* Program constants *)

FreshnessWindow == 300
SecondsPerDay == 86400
MinSearchLen == 3
SearchLimit == 10

TickSteps == {150, SecondsPerDay}

-----------------------------------------------------------------------------
(* Python values *)

\* None, where a text column or a form value may hold it: no character
\* sequence equals it (every character is a one-character string).
None == <<"None">>

NoTime == -1

\* str.strip(): leading and trailing white space removed.
RECURSIVE LStrip(_)
LStrip(s) ==
    IF s # <<>> /\ Head(s) = " " THEN LStrip(Tail(s)) ELSE s

RECURSIVE RStrip(_)
RStrip(s) ==
    IF s # <<>> /\ s[Len(s)] = " " THEN RStrip(SubSeq(s, 1, Len(s) - 1)) ELSE s

Strip(s) == RStrip(LStrip(s))

\* Python's "s or None" on a string.
OrNone(s) == IF s = <<>> THEN None ELSE s

\* "if not name" on a form value that was not stripped.
RequiredMissing_NoStrip(raw) == raw = <<>>

\* "if not name" on the stripped form value of a required field.
RequiredMissing(raw) == Strip(raw) = <<>>

\* str.isdigit() and int() on a form value: the decimal numerals.
IsDigit(s) == \E n \in 0..9 : ToString(n) = s
IntOf(s) == CHOOSE n \in 0..9 : ToString(n) = s

-----------------------------------------------------------------------------
(* datetime.strptime with the directives %Y-%m-%d and %H:%M, on text       *)

\* A Date, Time and DateTime column that is NULL.
NoDate == [year |-> 0, month |-> 0, day |-> 0]
NoTimeOfDay == [hour |-> -1, minute |-> -1, second |-> -1]
NoDateTime ==
    [year |-> 0, month |-> 0, day |-> 0,
     hour |-> -1, minute |-> -1, second |-> -1]

\* The length of the run of digits, and of blanks, that starts at p.
RECURSIVE DigitRun(_, _)
DigitRun(s, p) ==
    IF p <= Len(s) /\ IsDigit(s[p]) THEN 1 + DigitRun(s, p + 1) ELSE 0

RECURSIVE SpaceRun(_, _)
SpaceRun(s, p) ==
    IF p <= Len(s) /\ s[p] = " " THEN 1 + SpaceRun(s, p + 1) ELSE 0

\* int() of the n digits that start at p.
RECURSIVE Number(_, _, _)
Number(s, p, n) ==
    IF n = 0 THEN 0 ELSE 10 * Number(s, p, n - 1) + IntOf(s[p + n - 1])

IsLeap(year) == (year % 4 = 0 /\ year % 100 # 0) \/ year % 400 = 0

DaysInMonth(year, month) ==
    IF month = 2 THEN (IF IsLeap(year) THEN 29 ELSE 28)
    ELSE IF month \in {4, 6, 9, 11} THEN 30 ELSE 31

\* A field of one or two digits at p with a value in lo..hi, followed by
\* the character sep (or by the end of the text when sep is ""): its value
\* and the position after it; ok is FALSE when the text does not match.
NumField(s, p, lo, hi, sep) ==
    LET n == DigitRun(s, p)
        v == Number(s, p, n)
        q == p + n
    IN IF n \in 1..2 /\ v \in lo..hi
          /\ (IF sep = "" THEN TRUE ELSE q <= Len(s) /\ s[q] = sep)
       THEN [ok |-> TRUE, v |-> v, next |-> q]
       ELSE [ok |-> FALSE, v |-> 0, next |-> p]

\* %d also matches a blank followed by one digit 1..9.
DayField(s, p) ==
    IF p + 1 <= Len(s) /\ s[p] = " " /\ IsDigit(s[p + 1])
       /\ IntOf(s[p + 1]) >= 1
    THEN [ok |-> TRUE, v |-> IntOf(s[p + 1]), next |-> p + 2]
    ELSE NumField(s, p, 1, 31, "")

\* "%Y-%m-%d" matched at the start of s: four digits of year (1..9999),
\* month, day of a date that exists; next is the position after the day.
MatchDate(s) ==
    IF DigitRun(s, 1) >= 4 /\ Len(s) >= 5 /\ s[5] = "-"
       /\ Number(s, 1, 4) >= 1
    THEN LET year == Number(s, 1, 4)
             m == NumField(s, 6, 1, 12, "-")
             d == DayField(s, m.next + 1)
         IN IF m.ok /\ d.ok /\ d.v <= DaysInMonth(year, m.v)
            THEN [ok |-> TRUE, next |-> d.next,
                  date |-> [year |-> year, month |-> m.v, day |-> d.v]]
            ELSE [ok |-> FALSE, next |-> 1, date |-> NoDate]
    ELSE [ok |-> FALSE, next |-> 1, date |-> NoDate]

\* datetime.strptime(s, "%Y-%m-%d").date(); ok is FALSE for ValueError
\* (no match, or unconverted data remains).
StrpDate(s) ==
    LET m == MatchDate(s)
    IN IF m.ok /\ m.next = Len(s) + 1 THEN m
       ELSE [ok |-> FALSE, next |-> 1, date |-> NoDate]

\* datetime.strptime(s, "%Y-%m-%d %H:%M"): the blank of the format matches
\* one or more blanks; seconds are 0.
StrpDateTime(s) ==
    LET m == MatchDate(s)
        blanks == SpaceRun(s, m.next)
        h == NumField(s, m.next + blanks, 0, 23, ":")
        mi == NumField(s, h.next + 1, 0, 59, "")
    IN IF m.ok /\ blanks >= 1 /\ h.ok /\ mi.ok /\ mi.next = Len(s) + 1
       THEN [ok |-> TRUE,
             datetime |-> [year |-> m.date.year, month |-> m.date.month,
                           day |-> m.date.day, hour |-> h.v,
                           minute |-> mi.v, second |-> 0]]
       ELSE [ok |-> FALSE, datetime |-> NoDateTime]

\* datetime.date() and datetime.time().
DateOf(dt) == [year |-> dt.year, month |-> dt.month, day |-> dt.day]
TimeOf(dt) == [hour |-> dt.hour, minute |-> dt.minute, second |-> dt.second]

\* timedelta.seconds: the seconds field of the normalised (days, seconds)
\* pair, 0 <= seconds < 86400; the days are a separate field.
TimedeltaSeconds(delta) == delta % SecondsPerDay

-----------------------------------------------------------------------------
(* models.VenueInfo *)

\* VenueInfo(): a new object, every column None, no id yet.
VenueInfo ==
    [id |-> 0, name |-> None, address |-> None, map_link |-> None,
     description |-> None, date |-> NoDate, time |-> NoTimeOfDay,
     event_datetime |-> NoDateTime]

\* What VenueInfo.query.first() returns on an empty table.
NoVenue == [VenueInfo EXCEPT !.id = -1]

QueryFirstVenue(table) == IF table = <<>> THEN NoVenue ELSE Head(table)

-----------------------------------------------------------------------------
(* What the handlers share *)

clock == <<now, ticks>>
cache == <<venue_cache, venue_cache_time, cache_fetched_at>>
tables == <<venue_info, guest, guest_group, presente>>

\* create_admin, the before_request hook: a default account when the admin
\* table is empty.  werkzeug's hash is modelled by the password it hashes.
\* This is the hook of a request that runs alone and whose INSERT the
\* database accepts; create_admin_check and create_admin_commit below take
\* the hook apart for requests that interleave and for an INSERT that fails.
create_admin ==
    admin_user' =
        IF admin_user = <<>>
        THEN <<[id |-> 1, username |-> "admin", password_hash |-> "admin123"]>>
        ELSE admin_user

\* A gate that lets every request through.
HasAdminMarker_Always(sess) == TRUE

\* "'admin_id' in session": the test of admin_required_optimized.
HasAdminMarker(sess) == sess

\* admin_required_optimized, when 'admin_id' is not in the session: flash,
\* redirect to admin_login, the handler body does not run.
Denied(op) ==
    /\ lastOp' = [op |-> op, outcome |-> "redirect_login"]
    /\ UNCHANGED <<clock, foreign_keys, cache, tables, session, reqs>>

\* The clock advances between requests.
Tick ==
    /\ ticks < MaxTicks
    /\ \E d \in TickSteps : now' = now + d
    /\ ticks' = ticks + 1
    /\ UNCHANGED <<cache, tables, admin_user, session, lastOp, reqs,
                   foreign_keys>>

admin_login(username, password) ==
    /\ create_admin
    /\ LET found == {i \in 1..Len(admin_user') :
                        admin_user'[i].username = username}
           ok == found # {} /\
                 \A i \in found : admin_user'[i].password_hash = password
       IN /\ session' = IF ok THEN TRUE ELSE session
          /\ lastOp' = [op |-> "admin_login",
                        outcome |-> IF ok THEN "ok" ELSE "invalid",
                        user |-> username]
    /\ UNCHANGED <<clock, foreign_keys, cache, tables, reqs>>

admin_logout ==
    /\ create_admin
    /\ session' = FALSE
    /\ lastOp' = [op |-> "admin_logout", outcome |-> "ok"]
    /\ UNCHANGED <<clock, foreign_keys, cache, tables, reqs>>

-----------------------------------------------------------------------------
(* The venue cache: routes.get_cached_venue *)

\* _venue_cache.get('venue'): None when the key is missing.
CacheGet(c) == IF c = <<>> THEN NoVenue ELSE c[1]

\* A cache that takes a stored None for "nothing stored yet".
CacheValid_SkipsNone(t, cache_time) ==
    /\ cache_time # NoTime
    /\ venue_cache # <<>> /\ venue_cache[1].id # -1
    /\ (t - cache_time) % SecondsPerDay < FreshnessWindow

\* "if _venue_cache_time and (now - _venue_cache_time).seconds < 300": a
\* datetime is always true, so the first conjunct asks whether it is None.
CacheValid(t, cache_time) ==
    cache_time # NoTime /\ TimedeltaSeconds(t - cache_time) < FreshnessWindow

\* One call: whether it read the Data Store, what it returns, and the
\* globals it leaves.
get_cached_venue ==
    IF CacheValid(now, venue_cache_time)
    THEN [read |-> FALSE, ret |-> CacheGet(venue_cache),
          cache |-> venue_cache, time |-> venue_cache_time,
          fetched_at |-> cache_fetched_at]
    ELSE [read |-> TRUE, ret |-> QueryFirstVenue(venue_info),
          cache |-> <<QueryFirstVenue(venue_info)>>, time |-> now,
          fetched_at |-> now]

\* index, the public home page: the venue through the cache (its gift
\* query changes nothing).
index ==
    /\ create_admin
    /\ LET r == get_cached_venue
       IN /\ venue_cache' = r.cache
          /\ venue_cache_time' = r.time
          /\ cache_fetched_at' = r.fetched_at
          /\ lastOp' = [op |-> "index", outcome |-> "ok",
                        read |-> r.read, ret |-> r.ret,
                        elapsed |-> IF venue_cache_time = NoTime THEN NoTime
                                    ELSE now - venue_cache_time,
                        prev_cache |-> venue_cache]
    /\ UNCHANGED <<clock, foreign_keys, tables, session, reqs>>

-----------------------------------------------------------------------------
(* routes.update_venue *)

\* A date and time branch that stores the combined datetime and forgets the
\* two fields derived from it.
VenueDates_DatetimeOnly(venue, event_date, event_time) ==
    IF event_date # <<>> /\ event_time # <<>>
    THEN LET p == StrpDateTime(event_date \o <<" ">> \o event_time)
         IN IF p.ok
            THEN [v |-> [venue EXCEPT !.event_datetime = p.datetime],
                  warn |-> FALSE]
            ELSE [v |-> venue, warn |-> TRUE]
    ELSE IF event_date # <<>>
         THEN LET p == StrpDate(event_date)
              IN IF p.ok
                 THEN [v |-> [venue EXCEPT !.date = p.date], warn |-> FALSE]
                 ELSE [v |-> venue, warn |-> TRUE]
         ELSE [v |-> venue, warn |-> FALSE]

\* The date and time branch of update_venue on the loaded (or new) venue:
\* the venue after it, and whether a warning was flashed.
VenueDates(venue, event_date, event_time) ==
    IF event_date # <<>> /\ event_time # <<>>
    THEN LET p == StrpDateTime(event_date \o <<" ">> \o event_time)
         IN IF p.ok
            THEN [v |-> [venue EXCEPT !.event_datetime = p.datetime,
                                      !.date = DateOf(p.datetime),
                                      !.time = TimeOf(p.datetime)],
                  warn |-> FALSE]
            ELSE [v |-> venue, warn |-> TRUE]
    ELSE IF event_date # <<>>
         THEN LET p == StrpDate(event_date)
              IN IF p.ok
                 THEN [v |-> [venue EXCEPT !.date = p.date], warn |-> FALSE]
                 ELSE [v |-> venue, warn |-> TRUE]
         ELSE [v |-> venue, warn |-> FALSE]

\* An update_venue that builds a new object whatever the table holds.
LoadVenue_AlwaysNew(table) == VenueInfo

\* "venue = VenueInfo.query.first(); if not venue: venue = VenueInfo()".
LoadVenue(table) ==
    IF QueryFirstVenue(table) = NoVenue THEN VenueInfo
    ELSE QueryFirstVenue(table)

\* The venue object update_venue builds from the form before it commits.
VenueFromForm(venue, f) ==
    VenueDates([venue EXCEPT !.name = Strip(f.name),
                             !.address = OrNone(Strip(f.address)),
                             !.map_link = OrNone(Strip(f.map_link)),
                             !.description = OrNone(Strip(f.description))],
               Strip(f.event_date), Strip(f.event_time))

\* db.session.commit() of that object: an INSERT when it has no id ("if not
\* venue.id: db.session.add(venue)"), otherwise an UPDATE of its row that
\* sets the columns whose value differs from the one loaded.
CommitVenue(table, loaded, venue) ==
    IF venue.id = 0
    THEN Append(table, [venue EXCEPT !.id = Len(table) + 1])
    ELSE [i \in 1..Len(table) |->
            IF table[i].id = venue.id
            THEN [c \in DOMAIN venue |->
                    IF venue[c] # loaded[c] THEN venue[c] ELSE table[i][c]]
            ELSE table[i]]

\* An invalidation that forgets the timestamp.
InvalidateCache_KeepsTime == [cache |-> <<>>, time |-> venue_cache_time]

\* The globals after "_venue_cache = {}; _venue_cache_time = None".
InvalidateCache == [cache |-> <<>>, time |-> NoTime]

update_venue(f, commit_ok) ==
    /\ create_admin
    /\ IF ~HasAdminMarker(session) THEN Denied("update_venue")
       ELSE
       /\ IF RequiredMissing(f.name)
          THEN /\ lastOp' = [op |-> "update_venue", outcome |-> "validation",
                             form |-> f, warn |-> FALSE,
                             prev_cache |-> venue_cache,
                             prev_time |-> venue_cache_time]
               /\ UNCHANGED <<venue_info, cache>>
          ELSE LET loaded == LoadVenue(venue_info)
                   b == VenueFromForm(loaded, f)
               IN IF commit_ok
                  THEN /\ venue_info' = CommitVenue(venue_info, loaded, b.v)
                       /\ venue_cache' = InvalidateCache.cache
                       /\ venue_cache_time' = InvalidateCache.time
                       /\ cache_fetched_at' = NoTime
                       /\ lastOp' = [op |-> "update_venue",
                                     outcome |-> "success",
                                     form |-> f, warn |-> b.warn,
                                     prev_cache |-> venue_cache,
                                     prev_time |-> venue_cache_time]
                  ELSE \* the commit raises: rollback, the error is flashed
                       /\ lastOp' = [op |-> "update_venue",
                                     outcome |-> "rollback",
                                     form |-> f, warn |-> b.warn,
                                     prev_cache |-> venue_cache,
                                     prev_time |-> venue_cache_time]
                       /\ UNCHANGED <<venue_info, cache>>
       /\ UNCHANGED <<clock, foreign_keys, guest, guest_group, presente, session, reqs>>

-----------------------------------------------------------------------------
(* Rows and forms of the guest, guest_group and presente tables *)

\* A null group_id.
NoGroup == -1

\* "int(group_id) if group_id and group_id.isdigit() else None".
FormGroupId(s) == IF s # "" /\ IsDigit(s) THEN IntOf(s) ELSE NoGroup

Ids(table) == {table[i].id : i \in 1..Len(table)}

\* The primary key of the next INSERT: one more than the largest in the table.
NextId(table) == IF table = <<>> THEN 1 ELSE table[Len(table)].id + 1

RowOf(table, id) == table[CHOOSE i \in 1..Len(table) : table[i].id = id]

\* "db.ForeignKey('guest_group.id')" on Guest.group_id: a database that
\* enforces it (PostgreSQL) raises IntegrityError on a reference to a missing
\* group; SQLite, the default of app.py, sets no PRAGMA foreign_keys and
\* stores it.  A null reference always passes.
ForeignKeyOk(enforced, groups, group_id) ==
    ~enforced \/ group_id = NoGroup \/ group_id \in Ids(groups)

\* DELETE of the row with this primary key.
RECURSIVE DeleteRow(_, _)
DeleteRow(table, id) ==
    IF table = <<>> THEN <<>>
    ELSE IF Head(table).id = id THEN Tail(table)
    ELSE <<Head(table)>> \o DeleteRow(Tail(table), id)

\* UPDATE of the row with this primary key.
UpdateRow(table, id, row) ==
    [i \in 1..Len(table) |-> IF table[i].id = id THEN row ELSE table[i]]

\* A rollback that leaves the statements already sent in place.
Rollback_KeepsDirty(committed, dirty) == dirty

\* db.session.rollback(): the session's uncommitted changes are dropped.
Rollback(committed, dirty) == committed

\* The end of a request that did not commit: Flask-SQLAlchemy removes the
\* session, app.py sets no commit on teardown.
Teardown(committed, dirty) == committed

NamedRows(table, name) == {i \in 1..Len(table) : table[i].name = name}

\* A duplicate check that finds nothing.
NameTaken_Never(table, name) == FALSE

\* "filter_by(name=name).first()" finds a row.
NameTaken(table, name) == NamedRows(table, name) # {}

-----------------------------------------------------------------------------
(* routes.add_guest, edit_guest, delete_guest *)

add_guest(name, phone, group_id, commit_ok) ==
    /\ create_admin
    /\ IF ~HasAdminMarker(session) THEN Denied("add_guest")
       ELSE
       /\ IF RequiredMissing(name)
          THEN /\ lastOp' = [op |-> "add_guest", outcome |-> "validation",
                             name |-> name]
               /\ UNCHANGED guest
          ELSE IF NameTaken(guest, Strip(name))
          THEN /\ lastOp' = [op |-> "add_guest", outcome |-> "conflict",
                             name |-> name]
               /\ UNCHANGED guest
          ELSE LET new_guest ==
                       [id |-> NextId(guest), name |-> Strip(name),
                        phone |-> OrNone(Strip(phone)),
                        group_id |-> FormGroupId(group_id),
                        rsvp_status |-> "pendente"]
               IN IF commit_ok /\ ForeignKeyOk(foreign_keys, guest_group,
                                                new_guest.group_id)
                  THEN /\ Len(guest) < MaxGuests
                       /\ guest' = Append(guest, new_guest)
                       /\ lastOp' = [op |-> "add_guest", outcome |-> "added",
                                     name |-> name]
                  ELSE /\ guest' = Rollback(guest, Append(guest, new_guest))
                       /\ lastOp' = [op |-> "add_guest", outcome |-> "rollback",
                                     name |-> name]
       /\ UNCHANGED <<clock, foreign_keys, cache, venue_info, guest_group, presente,
                      session, reqs>>

edit_guest(guest_id, name, phone, group_id, rsvp_status, commit_ok) ==
    /\ create_admin
    /\ IF ~HasAdminMarker(session) THEN Denied("edit_guest")
       ELSE
       /\ IF guest_id \notin Ids(guest)
          THEN \* get_or_404 aborts inside the try: caught, rolled back, flashed
               /\ lastOp' = [op |-> "edit_guest", outcome |-> "error",
                             name |-> name]
               /\ UNCHANGED guest
          ELSE IF RequiredMissing(name)
          THEN /\ lastOp' = [op |-> "edit_guest", outcome |-> "validation",
                             name |-> name]
               /\ UNCHANGED guest
          ELSE LET row == [RowOf(guest, guest_id) EXCEPT
                              !.name = Strip(name),
                              !.phone = OrNone(Strip(phone)),
                              !.group_id = FormGroupId(group_id),
                              !.rsvp_status = rsvp_status]
                   dirty == UpdateRow(guest, guest_id, row)
               IN IF commit_ok /\ ForeignKeyOk(foreign_keys, guest_group,
                                                row.group_id)
                  THEN /\ guest' = dirty
                       /\ lastOp' = [op |-> "edit_guest", outcome |-> "updated",
                                     name |-> name]
                  ELSE /\ guest' = Rollback(guest, dirty)
                       /\ lastOp' = [op |-> "edit_guest", outcome |-> "rollback",
                                     name |-> name]
       /\ UNCHANGED <<clock, foreign_keys, cache, venue_info, guest_group, presente,
                      session, reqs>>

delete_guest(guest_id, commit_ok) ==
    /\ create_admin
    /\ IF ~HasAdminMarker(session) THEN Denied("delete_guest")
       ELSE
       /\ IF guest_id \notin Ids(guest)
          THEN /\ lastOp' = [op |-> "delete_guest", outcome |-> "error",
                             id |-> guest_id]
               /\ UNCHANGED guest
          ELSE IF commit_ok
          THEN /\ guest' = DeleteRow(guest, guest_id)
               /\ lastOp' = [op |-> "delete_guest", outcome |-> "deleted",
                             id |-> guest_id]
          ELSE /\ guest' = Rollback(guest, DeleteRow(guest, guest_id))
               /\ lastOp' = [op |-> "delete_guest", outcome |-> "rollback",
                             id |-> guest_id]
       /\ UNCHANGED <<clock, foreign_keys, cache, venue_info, guest_group, presente,
                      session, reqs>>

-----------------------------------------------------------------------------
(* routes.add_group, edit_group, delete_group *)

add_group(name, description, commit_ok) ==
    /\ create_admin
    /\ IF ~HasAdminMarker(session) THEN Denied("add_group")
       ELSE
       /\ IF RequiredMissing(name)
          THEN /\ lastOp' = [op |-> "add_group", outcome |-> "validation",
                             name |-> name]
               /\ UNCHANGED guest_group
          ELSE IF NameTaken(guest_group, Strip(name))
          THEN /\ lastOp' = [op |-> "add_group", outcome |-> "conflict",
                             name |-> name]
               /\ UNCHANGED guest_group
          ELSE LET new_group ==
                       [id |-> NextId(guest_group), name |-> Strip(name),
                        description |-> OrNone(Strip(description))]
               IN IF commit_ok
                  THEN /\ Len(guest_group) < MaxGroups
                       /\ guest_group' = Append(guest_group, new_group)
                       /\ lastOp' = [op |-> "add_group", outcome |-> "added",
                                     name |-> name]
                  ELSE /\ guest_group' =
                             Rollback(guest_group, Append(guest_group, new_group))
                       /\ lastOp' = [op |-> "add_group", outcome |-> "rollback",
                                     name |-> name]
       /\ UNCHANGED <<clock, foreign_keys, cache, venue_info, guest, presente, session, reqs>>

edit_group(group_id, name, description, commit_ok) ==
    /\ create_admin
    /\ IF ~HasAdminMarker(session) THEN Denied("edit_group")
       ELSE
       /\ IF group_id \notin Ids(guest_group)
          THEN /\ lastOp' = [op |-> "edit_group", outcome |-> "error",
                             name |-> name]
               /\ UNCHANGED guest_group
          ELSE IF RequiredMissing(name)
          THEN /\ lastOp' = [op |-> "edit_group", outcome |-> "validation",
                             name |-> name]
               /\ UNCHANGED guest_group
          ELSE LET row == [RowOf(guest_group, group_id) EXCEPT
                              !.name = Strip(name),
                              !.description = OrNone(Strip(description))]
                   dirty == UpdateRow(guest_group, group_id, row)
               IN IF commit_ok
                  THEN /\ guest_group' = dirty
                       /\ lastOp' = [op |-> "edit_group", outcome |-> "updated",
                                     name |-> name]
                  ELSE /\ guest_group' = Rollback(guest_group, dirty)
                       /\ lastOp' = [op |-> "edit_group", outcome |-> "rollback",
                                     name |-> name]
       /\ UNCHANGED <<clock, foreign_keys, cache, venue_info, guest, presente, session, reqs>>

\* "guests_count = Guest.query.filter_by(group_id=group_id).count()".
GuestsCount(table, group_id) ==
    Cardinality({i \in 1..Len(table) : table[i].group_id = group_id})

\* A delete_group that does not count the guests of the group.
DeleteRefused_NoCheck(table, group_id) == FALSE

\* "if guests_count > 0": the delete is refused.
DeleteRefused(table, group_id) == GuestsCount(table, group_id) > 0

delete_group(group_id, commit_ok) ==
    /\ create_admin
    /\ IF ~HasAdminMarker(session) THEN Denied("delete_group")
       ELSE
       /\ IF group_id \notin Ids(guest_group)
          THEN /\ lastOp' = [op |-> "delete_group", outcome |-> "error",
                             id |-> group_id]
               /\ UNCHANGED guest_group
          ELSE IF DeleteRefused(guest, group_id)
          THEN /\ lastOp' = [op |-> "delete_group", outcome |-> "conflict",
                             id |-> group_id]
               /\ UNCHANGED guest_group
          ELSE IF commit_ok
          THEN /\ guest_group' = DeleteRow(guest_group, group_id)
               /\ lastOp' = [op |-> "delete_group", outcome |-> "deleted",
                             id |-> group_id]
          ELSE /\ guest_group' =
                     Rollback(guest_group, DeleteRow(guest_group, group_id))
               /\ lastOp' = [op |-> "delete_group", outcome |-> "rollback",
                             id |-> group_id]
       /\ UNCHANGED <<clock, foreign_keys, cache, venue_info, guest, presente, session, reqs>>

-----------------------------------------------------------------------------
(* routes.add_gift, edit_gift: rows of presente carry the form's columns *)

GiftFromForm(id, f, is_active) ==
    [id |-> id, item_name |-> Strip(f.item_name),
     description |-> OrNone(Strip(f.description)),
     price |-> OrNone(Strip(f.price)),
     image_url |-> OrNone(Strip(f.image_url)),
     pix_key |-> OrNone(Strip(f.pix_key)),
     pix_link |-> OrNone(Strip(f.pix_link)),
     credit_card_link |-> OrNone(Strip(f.credit_card_link)),
     is_active |-> is_active]

add_gift(f, commit_ok) ==
    /\ create_admin
    /\ IF ~HasAdminMarker(session) THEN Denied("add_gift")
       ELSE
       /\ IF RequiredMissing(f.item_name)
          THEN /\ lastOp' = [op |-> "add_gift", outcome |-> "validation",
                             name |-> f.item_name]
               /\ UNCHANGED presente
          ELSE LET new_gift == GiftFromForm(NextId(presente), f, TRUE)
               IN IF commit_ok
                  THEN /\ Len(presente) < MaxGifts
                       /\ presente' = Append(presente, new_gift)
                       /\ lastOp' = [op |-> "add_gift", outcome |-> "added",
                                     name |-> f.item_name]
                  ELSE /\ presente' =
                             Rollback(presente, Append(presente, new_gift))
                       /\ lastOp' = [op |-> "add_gift", outcome |-> "rollback",
                                     name |-> f.item_name]
       /\ UNCHANGED <<clock, foreign_keys, cache, venue_info, guest, guest_group,
                      session, reqs>>

\* The columns are assigned first and the name is tested afterwards, on the
\* assigned attribute: a request that returns at the test leaves a dirty
\* session behind, which the teardown discards.
edit_gift(gift_id, f, is_active, commit_ok) ==
    /\ create_admin
    /\ IF ~HasAdminMarker(session) THEN Denied("edit_gift")
       ELSE
       /\ IF gift_id \notin Ids(presente)
          THEN /\ lastOp' = [op |-> "edit_gift", outcome |-> "error",
                             name |-> f.item_name]
               /\ UNCHANGED presente
          ELSE LET gift == GiftFromForm(gift_id, f, is_active)
                   dirty == UpdateRow(presente, gift_id, gift)
               IN IF RequiredMissing(f.item_name)
                  THEN /\ presente' = Teardown(presente, dirty)
                       /\ lastOp' = [op |-> "edit_gift",
                                     outcome |-> "validation",
                                     name |-> f.item_name]
                  ELSE IF commit_ok
                  THEN /\ presente' = dirty
                       /\ lastOp' = [op |-> "edit_gift", outcome |-> "updated",
                                     name |-> f.item_name]
                  ELSE /\ presente' = Rollback(presente, dirty)
                       /\ lastOp' = [op |-> "edit_gift", outcome |-> "rollback",
                                     name |-> f.item_name]
       /\ UNCHANGED <<clock, foreign_keys, cache, venue_info, guest, guest_group,
                      session, reqs>>

delete_gift(gift_id, commit_ok) ==
    /\ create_admin
    /\ IF ~HasAdminMarker(session) THEN Denied("delete_gift")
       ELSE
       /\ IF gift_id \notin Ids(presente)
          THEN /\ lastOp' = [op |-> "delete_gift", outcome |-> "error",
                             id |-> gift_id]
               /\ UNCHANGED presente
          ELSE IF commit_ok
          THEN /\ presente' = DeleteRow(presente, gift_id)
               /\ lastOp' = [op |-> "delete_gift", outcome |-> "deleted",
                             id |-> gift_id]
          ELSE /\ presente' = Rollback(presente, DeleteRow(presente, gift_id))
               /\ lastOp' = [op |-> "delete_gift", outcome |-> "rollback",
                             id |-> gift_id]
       /\ UNCHANGED <<clock, foreign_keys, cache, venue_info, guest, guest_group,
                      session, reqs>>

-----------------------------------------------------------------------------
(* routes.add_guest_to_group, remove_guest_from_group: the JSON body's     *)
(* guest_id and group_id are numbers, 0 when the key is absent             *)

\* The UPDATE without its filter_by: every guest gets the group.
SetGroup_AllRows(table, guest_id, group_id) ==
    [i \in 1..Len(table) |-> [table[i] EXCEPT !.group_id = group_id]]

\* "Guest.query.filter_by(id=guest_id).update({'group_id': group_id})".
SetGroup(table, guest_id, group_id) ==
    [i \in 1..Len(table) |->
        IF table[i].id = guest_id
        THEN [table[i] EXCEPT !.group_id = group_id]
        ELSE table[i]]

add_guest_to_group(guest_id, group_id, commit_ok) ==
    /\ create_admin
    /\ IF ~HasAdminMarker(session) THEN Denied("add_guest_to_group")
       ELSE
       /\ IF guest_id = 0 \/ group_id = 0
          THEN /\ lastOp' = [op |-> "add_guest_to_group", outcome |-> "400",
                             id |-> guest_id, group |-> group_id]
               /\ UNCHANGED guest
          ELSE IF guest_id \notin Ids(guest)
          THEN \* rows_updated == 0
               /\ lastOp' = [op |-> "add_guest_to_group", outcome |-> "404",
                             id |-> guest_id, group |-> group_id]
               /\ UNCHANGED guest
          ELSE IF commit_ok /\ ForeignKeyOk(foreign_keys, guest_group, group_id)
          THEN /\ guest' = SetGroup(guest, guest_id, group_id)
               /\ lastOp' = [op |-> "add_guest_to_group", outcome |-> "200",
                             id |-> guest_id, group |-> group_id]
          ELSE /\ guest' = Rollback(guest, SetGroup(guest, guest_id, group_id))
               /\ lastOp' = [op |-> "add_guest_to_group", outcome |-> "500",
                             id |-> guest_id, group |-> group_id]
       /\ UNCHANGED <<clock, foreign_keys, cache, venue_info, guest_group, presente,
                      session, reqs>>

remove_guest_from_group(guest_id, commit_ok) ==
    /\ create_admin
    /\ IF ~HasAdminMarker(session) THEN Denied("remove_guest_from_group")
       ELSE
       /\ IF guest_id = 0
          THEN /\ lastOp' = [op |-> "remove_guest_from_group",
                             outcome |-> "400", id |-> guest_id]
               /\ UNCHANGED guest
          ELSE IF guest_id \notin Ids(guest)
          THEN /\ lastOp' = [op |-> "remove_guest_from_group",
                             outcome |-> "404", id |-> guest_id]
               /\ UNCHANGED guest
          ELSE IF commit_ok
          THEN /\ guest' = SetGroup(guest, guest_id, NoGroup)
               /\ lastOp' = [op |-> "remove_guest_from_group",
                             outcome |-> "200", id |-> guest_id]
          ELSE /\ guest' = Rollback(guest, SetGroup(guest, guest_id, NoGroup))
               /\ lastOp' = [op |-> "remove_guest_from_group",
                             outcome |-> "500", id |-> guest_id]
       /\ UNCHANGED <<clock, foreign_keys, cache, venue_info, guest_group, presente,
                      session, reqs>>

-----------------------------------------------------------------------------
(* routes.get_guest_group, confirm_rsvp: the public RSVP endpoints *)

GroupMembers(table, group_id) ==
    SelectSeq(table, LAMBDA g : g.group_id = group_id)

\* first_or_404 raises inside the try and "except Exception" answers 500.
get_guest_group(guest_id) ==
    /\ create_admin
    /\ IF guest_id \notin Ids(guest)
       THEN lastOp' = [op |-> "get_guest_group", outcome |-> "500",
                       id |-> guest_id, guests |-> <<>>]
       ELSE LET g == RowOf(guest, guest_id)
            IN lastOp' = [op |-> "get_guest_group", outcome |-> "200",
                          id |-> guest_id,
                          guests |-> IF g.group_id # NoGroup /\ g.group_id # 0
                                     THEN GroupMembers(guest, g.group_id)
                                     ELSE <<g>>]
    /\ UNCHANGED <<clock, foreign_keys, cache, tables, session, reqs>>

RsvpChoices == {"confirmado", "nao_confirmado"}

\* The loop over guest_ids: int(guest_id) is reached only for an accepted
\* status and raises ValueError on a value that is not a numeral.
RECURSIVE RsvpUpdates(_, _)
RsvpUpdates(guest_ids, rsvp) ==
    IF guest_ids = <<>> THEN [raised |-> FALSE, updates |-> <<>>]
    ELSE LET guest_id == Head(guest_ids)
             status == rsvp[guest_id]
             rest == RsvpUpdates(Tail(guest_ids), rsvp)
         IN IF status \notin RsvpChoices THEN rest
            ELSE IF ~IsDigit(guest_id)
            THEN [raised |-> TRUE, updates |-> <<>>]
            ELSE IF rest.raised THEN rest
            ELSE [raised |-> FALSE,
                  updates |-> <<[id |-> IntOf(guest_id),
                                 rsvp_status |-> status]>> \o rest.updates]

\* bulk_update_mappings: one UPDATE ... WHERE id = :id per mapping, in order.
RECURSIVE BulkUpdate(_, _)
BulkUpdate(table, updates) ==
    IF updates = <<>> THEN table
    ELSE BulkUpdate(
             [i \in 1..Len(table) |->
                 IF table[i].id = Head(updates).id
                 THEN [table[i] EXCEPT !.rsvp_status = Head(updates).rsvp_status]
                 ELSE table[i]],
             Tail(updates))

\* The rows the UPDATEs matched, summed over the mappings.
Matched(table, updates) ==
    Cardinality({i \in 1..Len(updates) : updates[i].id \in Ids(table)})

\* Whether the unit of work compares the matched rows with the number of
\* mappings depends on the driver: always for a single mapping, for several
\* only where the driver reports a multi-row count.
StaleData(table, updates, sane_multi_rowcount) ==
    /\ sane_multi_rowcount \/ Len(updates) = 1
    /\ Matched(table, updates) # Len(updates)

confirm_rsvp(form, sane_multi_rowcount, commit_ok) ==
    /\ create_admin
    /\ IF form.guest_ids = <<>>
       THEN /\ lastOp' = [op |-> "confirm_rsvp", outcome |-> "none_selected",
                          form |-> form, confirmed_count |-> 0]
            /\ UNCHANGED guest
       ELSE LET u == RsvpUpdates(form.guest_ids, form.rsvp)
                dirty == BulkUpdate(guest, u.updates)
            IN IF u.raised
               THEN /\ guest' = Rollback(guest, guest)
                    /\ lastOp' = [op |-> "confirm_rsvp", outcome |-> "error",
                                  form |-> form, confirmed_count |-> 0]
               ELSE IF u.updates = <<>>
               THEN /\ lastOp' = [op |-> "confirm_rsvp", outcome |-> "nothing",
                                  form |-> form, confirmed_count |-> 0]
                    /\ UNCHANGED guest
               ELSE IF StaleData(guest, u.updates, sane_multi_rowcount)
                       \/ ~commit_ok
               THEN /\ guest' = Rollback(guest, dirty)
                    /\ lastOp' = [op |-> "confirm_rsvp", outcome |-> "error",
                                  form |-> form, confirmed_count |-> 0]
               ELSE /\ guest' = dirty
                    /\ lastOp' = [op |-> "confirm_rsvp", outcome |-> "success",
                                  form |-> form,
                                  confirmed_count |-> Len(u.updates)]
    /\ UNCHANGED <<clock, foreign_keys, cache, venue_info, guest_group, presente,
                   session, reqs>>

-----------------------------------------------------------------------------
(* send_whatsapp.py: the single send and the bulk loop.  A setting of the  *)
(* environment is "None" when unset; provider[k] is what the provider does *)
(* with the k-th call: "ok", or the text of the exception it raises.       *)

\* A test of the settings that forgets the sender's number.
CredsOk_IgnoresPhone(creds) ==
    /\ creds.sid \notin {"None", ""}
    /\ creds.token \notin {"None", ""}

\* "all([TWILIO_ACCOUNT_SID, TWILIO_AUTH_TOKEN, TWILIO_PHONE_NUMBER])".
CredsOk(creds) ==
    /\ creds.sid \notin {"None", ""}
    /\ creds.token \notin {"None", ""}
    /\ creds.phone \notin {"None", ""}

ConfigError == "Credenciais do Twilio nao configuradas"

\* The result dict; called tells whether a client was built and the
\* message submitted to the provider.
send_whatsapp_message(to_phone_number, message, creds, outcome) ==
    IF ~CredsOk(creds)
    THEN [success |-> FALSE, error |-> ConfigError, called |-> FALSE]
    ELSE IF outcome = "ok"
    THEN [success |-> TRUE, error |-> "None", called |-> TRUE]
    ELSE [success |-> FALSE, error |-> outcome, called |-> TRUE]

\* A tally that counts the successes only.
Tally_SuccessOnly(results, result) ==
    IF result.success
    THEN [results EXCEPT !.successful = @ + 1]
    ELSE results

\* "if result['success']: successful += 1, else: failed += 1".
Tally(results, result) ==
    IF result.success
    THEN [results EXCEPT !.successful = @ + 1]
    ELSE [results EXCEPT !.failed = @ + 1]

\* The results after one more turn of the loop, for the k-th phone;
\* attempts and calls list the single sends made and the provider calls.
BulkStep(results, phone, message, creds, outcome) ==
    LET result == send_whatsapp_message(phone, message, creds, outcome)
    IN Tally([results EXCEPT
                 !.results = Append(@, [phone |-> phone,
                                        success |-> result.success,
                                        error |-> result.error]),
                 !.attempts = Append(@, phone),
                 !.calls = IF result.called THEN Append(@, phone) ELSE @],
             result)

\* A loop that gives up at the first send that fails.
RECURSIVE BulkLoop_StopsAtFailure(_, _, _, _, _)
BulkLoop_StopsAtFailure(phone_numbers, message, creds, provider, k) ==
    IF k = 0
    THEN [total |-> Len(phone_numbers), successful |-> 0, failed |-> 0,
          results |-> <<>>, attempts |-> <<>>, calls |-> <<>>]
    ELSE LET before == BulkLoop_StopsAtFailure(phone_numbers, message, creds,
                                               provider, k - 1)
         IN IF before.failed > 0 THEN before
            ELSE BulkStep(before, phone_numbers[k], message, creds,
                          provider[k])

\* The results dict after the first k turns of "for phone in phone_numbers".
RECURSIVE BulkLoop(_, _, _, _, _)
BulkLoop(phone_numbers, message, creds, provider, k) ==
    IF k = 0
    THEN [total |-> Len(phone_numbers), successful |-> 0, failed |-> 0,
          results |-> <<>>, attempts |-> <<>>, calls |-> <<>>]
    ELSE BulkStep(BulkLoop(phone_numbers, message, creds, provider, k - 1),
                  phone_numbers[k], message, creds, provider[k])

send_bulk_whatsapp_messages(phone_numbers, message, creds, provider) ==
    BulkLoop(phone_numbers, message, creds, provider, Len(phone_numbers))

\* A call of the bulk send on its own, the only call of its behaviour.
bulk_send(phone_numbers, message, creds, provider) ==
    /\ lastOp.op = "none"
    /\ lastOp' = [op |-> "send_bulk_whatsapp_messages", outcome |-> "returned",
                  phone_numbers |-> phone_numbers, creds |-> creds,
                  provider |-> provider,
                  ret |-> send_bulk_whatsapp_messages(phone_numbers, message,
                                                      creds, provider)]
    /\ UNCHANGED <<clock, foreign_keys, cache, tables, admin_user, session, reqs>>

-----------------------------------------------------------------------------
(* send_whatsapp.get_wedding_message.  A template is a sequence of pieces: *)
(* a replacement field "{name}" or literal text.                           *)

\* The replacement fields and the keyword each one names.
FieldName ==
    ("{date}" :> "date") @@ ("{time}" :> "time") @@ ("{venue}" :> "venue")
    @@ ("{rsvp_link}" :> "rsvp_link") @@ ("{address}" :> "address")
    @@ ("{gift_link}" :> "gift_link")

WEDDING_MESSAGES ==
    ("confirmation_reminder" :>
        <<"lembrete Data: ", "{date}", " Horario: ", "{time}", " Local: ",
          "{venue}", " link: ", "{rsvp_link}", " Aguardamos voce!">>)
    @@ ("thank_you" :>
        <<"obrigado Data: ", "{date}", " Horario: ", "{time}", " Local: ",
          "{venue}", " Estamos ansiosos">>)
    @@ ("venue_update" :>
        <<"informacoes Data: ", "{date}", " Horario: ", "{time}", " Local: ",
          "{venue}", " Endereco: ", "{address}", " Nao esqueca">>)
    @@ ("gift_registry" :>
        <<"lista de presentes: ", "{gift_link}", " Data: ", "{date}",
          " Horario: ", "{time}", " Sua presenca">>)

\* str.format(**kwargs): KeyError when a field names no keyword; keywords
\* no field names are ignored.
Format(template, kwargs) ==
    IF \E i \in 1..Len(template) :
          template[i] \in DOMAIN FieldName
          /\ FieldName[template[i]] \notin DOMAIN kwargs
    THEN [raised |-> "KeyError", ret |-> <<>>]
    ELSE [raised |-> "None",
          ret |-> [i \in 1..Len(template) |->
                     IF template[i] \in DOMAIN FieldName
                     THEN kwargs[FieldName[template[i]]]
                     ELSE template[i]]]

\* get_wedding_message(message_type, *args, **kwargs) as a call: the
\* signature takes one positional argument, a second one is a TypeError.
\* ret is the pieces of the text returned, <<>> for the empty string.
get_wedding_message(message_type, args, kwargs) ==
    IF args # <<>> THEN [raised |-> "TypeError", ret |-> <<>>]
    ELSE LET template == IF message_type \in DOMAIN WEDDING_MESSAGES
                         THEN WEDDING_MESSAGES[message_type] ELSE <<>>
         IN IF template # <<>> THEN Format(template, kwargs)
            ELSE [raised |-> "None", ret |-> <<>>]

\* A call of get_wedding_message on its own.
wedding_message(message_type, kwargs) ==
    /\ lastOp' = [op |-> "get_wedding_message", outcome |-> "returned",
                  message_type |-> message_type, kwargs |-> kwargs,
                  render |-> get_wedding_message(message_type, <<>>, kwargs)]
    /\ UNCHANGED <<clock, foreign_keys, cache, tables, admin_user, session, reqs>>

-----------------------------------------------------------------------------
(* routes.send_whatsapp *)

\* "not g.phone".
NoPhone(g) == g.phone = None \/ g.phone = <<>>

\* "Guest.query.filter(Guest.id.in_(guest_ids)).all()".
GuestsIn(table, guest_ids) ==
    SelectSeq(table, LAMBDA g : \E k \in 1..Len(guest_ids) :
                                   IsDigit(guest_ids[k])
                                   /\ IntOf(guest_ids[k]) = g.id)

WithoutPhone(guests) == SelectSeq(guests, NoPhone)
WithPhone(guests) == SelectSeq(guests, LAMBDA g : ~NoPhone(g))

\* The keys an iteration over the dict returned by the bulk send yields.
ResultKeys == <<"total", "successful", "failed", "results">>

\* "success_count, error_count, errors = <dict>": the dict is iterated and
\* must yield exactly three items, else ValueError.
UnpackRaises(keys) == Len(keys) # 3

NoBulk ==
    [total |-> 0, successful |-> 0, failed |-> 0, results |-> <<>>,
     attempts |-> <<>>, calls |-> <<>>]

NoRender == [raised |-> "None", ret |-> <<>>]

\* The record of one send_whatsapp request: who was selected, flashed as
\* without phone and handed to the bulk send, what the bulk send returned,
\* and the counts flashed (-1 when none was).
SendRecord(outcome, selected, guests, dispatched, ret, render, flashed) ==
    [op |-> "send_whatsapp", outcome |-> outcome, selected |-> selected,
     skipped |-> WithoutPhone(guests), with_phone |-> WithPhone(guests),
     dispatched |-> dispatched, ret |-> ret, render |-> render,
     success_count |-> flashed[1], error_count |-> flashed[2]]

send_whatsapp(message_type, custom_message, selected_guests, creds, provider) ==
    /\ create_admin
    /\ IF ~HasAdminMarker(session) THEN Denied("send_whatsapp")
       ELSE
       LET guests == GuestsIn(guest, selected_guests)
           to == WithPhone(guests)
       IN
       IF selected_guests = <<>>
       THEN /\ lastOp' = SendRecord("none_selected", selected_guests, <<>>,
                                    FALSE, NoBulk, NoRender, <<-1, -1>>)
            /\ UNCHANGED <<clock, foreign_keys, cache, tables, session, reqs>>
       ELSE IF \E k \in 1..Len(selected_guests) : ~IsDigit(selected_guests[k])
       THEN \* int(id) raises ValueError
            /\ lastOp' = SendRecord("general_error", selected_guests, <<>>,
                                    FALSE, NoBulk, NoRender, <<-1, -1>>)
            /\ UNCHANGED <<clock, foreign_keys, cache, tables, session, reqs>>
       ELSE IF to = <<>>
       THEN /\ lastOp' = SendRecord("no_phone", selected_guests, guests,
                                    FALSE, NoBulk, NoRender, <<-1, -1>>)
            /\ UNCHANGED <<clock, foreign_keys, cache, tables, session, reqs>>
       ELSE IF message_type = "custom" /\ Strip(custom_message) # <<>>
       THEN LET ret == send_bulk_whatsapp_messages(
                           to, Strip(custom_message), creds,
                           SubSeq(provider, 1, Len(to)))
            IN /\ lastOp' =
                     IF UnpackRaises(ResultKeys)
                     THEN SendRecord("general_error", selected_guests, guests,
                                     TRUE, ret, NoRender, <<-1, -1>>)
                     ELSE SendRecord("reported", selected_guests, guests,
                                     TRUE, ret, NoRender,
                                     <<ret.successful, ret.failed>>)
               /\ UNCHANGED <<clock, foreign_keys, cache, tables, session, reqs>>
       ELSE LET r == get_cached_venue
                render == get_wedding_message(message_type, <<r.ret>>, <<>>)
                ret == send_bulk_whatsapp_messages(
                           to, render.ret, creds, SubSeq(provider, 1, Len(to)))
            IN /\ venue_cache' = r.cache
               /\ venue_cache_time' = r.time
               /\ cache_fetched_at' = r.fetched_at
               /\ lastOp' =
                     IF render.raised # "None"
                     THEN SendRecord("general_error", selected_guests, guests,
                                     FALSE, NoBulk, render, <<-1, -1>>)
                     ELSE IF UnpackRaises(ResultKeys)
                     THEN SendRecord("general_error", selected_guests, guests,
                                     TRUE, ret, render, <<-1, -1>>)
                     ELSE SendRecord("reported", selected_guests, guests,
                                     TRUE, ret, render,
                                     <<ret.successful, ret.failed>>)
               /\ UNCHANGED <<clock, foreign_keys, tables, session, reqs>>

-----------------------------------------------------------------------------
(* routes.search_guest *)

\* A search that only refuses the empty name.
TooShort_OnlyEmpty(name) == name = <<>>

\* "if not name or len(name) < 3".
TooShort(name) == name = <<>> \/ Len(name) < MinSearchLen

\* Lower case of the letters that occur in names.
Lower(c) ==
    IF c = "A" THEN "a" ELSE IF c = "B" THEN "b" ELSE IF c = "N" THEN "n"
    ELSE c

\* ILIKE: "%" matches any run of characters, "_" any one character, a
\* letter matches in either case.
RECURSIVE ILike(_, _)
ILike(text, pattern) ==
    IF pattern = <<>> THEN text = <<>>
    ELSE IF Head(pattern) = "%"
    THEN ILike(text, Tail(pattern))
         \/ (text # <<>> /\ ILike(Tail(text), pattern))
    ELSE /\ text # <<>>
         /\ Head(pattern) = "_" \/ Lower(Head(pattern)) = Lower(Head(text))
         /\ ILike(Tail(text), Tail(pattern))

\* "g.group.name if g.group else None".
GroupName(g) ==
    IF g.group_id \in Ids(guest_group)
    THEN RowOf(guest_group, g.group_id).name ELSE None

\* "Guest.query.filter(Guest.name.ilike(f'{name}%')).limit(10).all()" and
\* the dicts made of its rows.
SearchResults(name) ==
    LET found == SelectSeq(guest, LAMBDA g : ILike(g.name, name \o <<"%">>))
        first == SubSeq(found, 1, IF Len(found) < SearchLimit THEN Len(found)
                                  ELSE SearchLimit)
    IN [k \in 1..Len(first) |->
           [id |-> first[k].id, name |-> first[k].name,
            rsvp_status |-> first[k].rsvp_status,
            group_name |-> GroupName(first[k])]]

search_guest(name) ==
    /\ create_admin
    /\ lastOp' = IF TooShort(Strip(name))
                 THEN [op |-> "search_guest", outcome |-> "200",
                       name |-> name, queried |-> FALSE, guests |-> <<>>]
                 ELSE [op |-> "search_guest", outcome |-> "200",
                       name |-> name, queried |-> TRUE,
                       guests |-> SearchResults(Strip(name))]
    /\ UNCHANGED <<clock, foreign_keys, cache, tables, session, reqs>>

-----------------------------------------------------------------------------
(* Initial state: an empty database, nobody logged in, an empty cache *)

Init ==
    /\ now = 0
    /\ ticks = 0
    /\ venue_info = <<>>
    /\ venue_cache = <<>>
    /\ venue_cache_time = NoTime
    /\ cache_fetched_at = NoTime
    /\ guest = <<>>
    /\ guest_group = <<>>
    /\ presente = <<>>
    /\ admin_user = <<>>
    /\ session = FALSE
    /\ lastOp = [op |-> "none", outcome |-> "none"]
    /\ reqs = <<>>
    /\ foreign_keys \in BOOLEAN

-----------------------------------------------------------------------------
(* The venue and its cache, one request at a time *)

Passwords == {"admin123", "wrong"}

\* The texts "2025-08-15" and "16:00".
Date_2025_08_15 == <<"2", "0", "2", "5", "-", "0", "8", "-", "1", "5">>
Time_16_00 == <<"1", "6", ":", "0", "0">>

\* Forms of update_venue for the cache: names with and without white space,
\* with and without a date and time.
CacheForms ==
    {[name |-> n, address |-> <<>>, map_link |-> <<>>, description |-> <<>>,
      event_date |-> d[1], event_time |-> d[2]] :
        n \in {<<>>, <<" ">>, <<"A">>, <<" ", "B">>},
        d \in {<<<<>>, <<>>>>, <<Date_2025_08_15, Time_16_00>>}}

NextVenue ==
    \/ Tick
    \/ \E p \in Passwords : admin_login("admin", p)
    \/ admin_logout
    \/ index
    \/ \E f \in CacheForms, commit_ok \in BOOLEAN : update_venue(f, commit_ok)

SpecVenue == Init /\ [][NextVenue]_vars

-----------------------------------------------------------------------------
(* The venue and its cache under interleaved requests.  The cache is two   *)
(* module globals with no lock: a request is a thread that reads and       *)
(* writes them one at a time, and commits between other threads' steps.    *)

EmptyForm ==
    [name |-> <<>>, address |-> <<>>, map_link |-> <<>>, description |-> <<>>,
     event_date |-> <<>>, event_time |-> <<>>]

NewRequest(kind, f) ==
    [kind |-> kind, pc |-> "begin", form |-> f, outcome |-> "running",
     now |-> NoTime,          \* the local "now" of get_cached_venue
     loaded |-> NoVenue,      \* the row update_venue loaded
     venue |-> NoVenue,       \* the local "venue"
     read_at |-> NoTime,      \* when this request read the table
     read |-> FALSE, ret |-> NoVenue,
     stale |-> FALSE,         \* a cached value returned that is not the row
     fetched_at |-> NoTime]   \* when the cached value returned was read

Running(i, kind, pc) ==
    /\ i \in 1..Len(reqs)
    /\ reqs[i].kind = kind
    /\ reqs[i].pc = pc

Finish(r, outcome) == [r EXCEPT !.pc = "done", !.outcome = outcome]

begin_request(kind, f) ==
    /\ Len(reqs) < MaxReqs
    /\ create_admin
    /\ reqs' = Append(reqs, NewRequest(kind, f))
    /\ UNCHANGED <<clock, foreign_keys, cache, tables, session, lastOp>>

\* get_cached_venue, "now = datetime.utcnow()" and the first operand of the
\* test, "_venue_cache_time and ...".
get_now_test(i) ==
    /\ Running(i, "index", "begin")
    /\ reqs' = [reqs EXCEPT ![i].now = now,
                            ![i].pc = IF venue_cache_time = NoTime
                                      THEN "query" ELSE "test2"]
    /\ UNCHANGED <<clock, foreign_keys, cache, tables, admin_user, session, lastOp>>

\* The second operand, "(now - _venue_cache_time).seconds < 300", reads the
\* global again: a None there by now raises TypeError out of the handler.
get_test2(i) ==
    /\ Running(i, "index", "test2")
    /\ reqs' = [reqs EXCEPT ![i] =
            IF venue_cache_time = NoTime THEN Finish(@, "TypeError")
            ELSE IF CacheValid(reqs[i].now, venue_cache_time)
                 THEN [@ EXCEPT !.pc = "hit"]
                 ELSE [@ EXCEPT !.pc = "query"]]
    /\ UNCHANGED <<clock, foreign_keys, cache, tables, admin_user, session, lastOp>>

\* "return _venue_cache.get('venue')".
get_hit(i) ==
    /\ Running(i, "index", "hit")
    /\ reqs' = [reqs EXCEPT ![i] =
            [Finish(@, "ok") EXCEPT
                !.ret = CacheGet(venue_cache),
                !.stale = CacheGet(venue_cache) # QueryFirstVenue(venue_info),
                !.fetched_at = cache_fetched_at]]
    /\ UNCHANGED <<clock, foreign_keys, cache, tables, admin_user, session, lastOp>>

\* "venue = VenueInfo.query.first()".
get_query(i) ==
    /\ Running(i, "index", "query")
    /\ reqs' = [reqs EXCEPT ![i].venue = QueryFirstVenue(venue_info),
                            ![i].read_at = now,
                            ![i].read = TRUE,
                            ![i].pc = "store1"]
    /\ UNCHANGED <<clock, foreign_keys, cache, tables, admin_user, session, lastOp>>

\* "_venue_cache = {'venue': venue}".
get_store_cache(i) ==
    /\ Running(i, "index", "store1")
    /\ venue_cache' = <<reqs[i].venue>>
    /\ cache_fetched_at' = reqs[i].read_at
    /\ reqs' = [reqs EXCEPT ![i].pc = "store2"]
    /\ UNCHANGED <<clock, foreign_keys, venue_cache_time, tables, admin_user, session, lastOp>>

\* "_venue_cache_time = now; return venue".
get_store_time(i) ==
    /\ Running(i, "index", "store2")
    /\ venue_cache_time' = reqs[i].now
    /\ reqs' = [reqs EXCEPT ![i] =
                    [Finish(@, "ok") EXCEPT !.ret = reqs[i].venue]]
    /\ UNCHANGED <<clock, foreign_keys, venue_cache, cache_fetched_at, tables, admin_user,
                   session, lastOp>>

\* update_venue up to its commit: the gate, the name check, the row loaded
\* and changed in the session.
update_load(i) ==
    /\ Running(i, "update_venue", "begin")
    /\ LET r == reqs[i]
       IN reqs' = [reqs EXCEPT ![i] =
            IF ~HasAdminMarker(session) THEN Finish(r, "redirect_login")
            ELSE IF Strip(r.form.name) = <<>> THEN Finish(r, "validation")
            ELSE [r EXCEPT
                    !.loaded = LoadVenue(venue_info),
                    !.venue = VenueFromForm(LoadVenue(venue_info), r.form).v,
                    !.pc = "commit"]]
    /\ UNCHANGED <<clock, foreign_keys, cache, tables, admin_user, session, lastOp>>

\* "db.session.commit()", or the exception that rolls back.
update_commit(i, commit_ok) ==
    /\ Running(i, "update_venue", "commit")
    /\ IF commit_ok
       THEN /\ venue_info' =
                  CommitVenue(venue_info, reqs[i].loaded, reqs[i].venue)
            /\ reqs' = [reqs EXCEPT ![i].pc = "inval1"]
       ELSE /\ reqs' = [reqs EXCEPT ![i] = Finish(@, "rollback")]
            /\ UNCHANGED venue_info
    /\ UNCHANGED <<clock, foreign_keys, cache, guest, guest_group, presente, admin_user,
                   session, lastOp>>

\* "_venue_cache = {}".
update_clear_cache(i) ==
    /\ Running(i, "update_venue", "inval1")
    /\ venue_cache' = InvalidateCache.cache
    /\ cache_fetched_at' = NoTime
    /\ reqs' = [reqs EXCEPT ![i].pc = "inval2"]
    /\ UNCHANGED <<clock, foreign_keys, venue_cache_time, tables, admin_user, session, lastOp>>

\* "_venue_cache_time = None".
update_clear_time(i) ==
    /\ Running(i, "update_venue", "inval2")
    /\ venue_cache_time' = InvalidateCache.time
    /\ reqs' = [reqs EXCEPT ![i] = Finish(@, "success")]
    /\ UNCHANGED <<clock, foreign_keys, venue_cache, cache_fetched_at, tables, admin_user,
                   session, lastOp>>

\* A state SpecVenue reaches: the admin has logged in and stored a venue.
InitConc ==
    /\ now = 0
    /\ ticks = 0
    /\ venue_info = <<[VenueInfo EXCEPT !.id = 1, !.name = <<"A">>]>>
    /\ venue_cache = <<>>
    /\ venue_cache_time = NoTime
    /\ cache_fetched_at = NoTime
    /\ guest = <<>>
    /\ guest_group = <<>>
    /\ presente = <<>>
    /\ admin_user = <<[id |-> 1, username |-> "admin", password_hash |-> "admin123"]>>
    /\ session = TRUE
    /\ lastOp = [op |-> "update_venue", outcome |-> "success",
                 form |-> [EmptyForm EXCEPT !.name = <<"A">>], warn |-> FALSE,
                 prev_cache |-> <<>>, prev_time |-> NoTime]
    /\ reqs = <<>>
    /\ foreign_keys \in BOOLEAN

ConcForms == {[EmptyForm EXCEPT !.name = n] : n \in {<<>>, <<"B">>}}

NextConc ==
    \/ (ticks < MaxConcTicks /\ Tick)
    \/ begin_request("index", EmptyForm)
    \/ \E f \in ConcForms : begin_request("update_venue", f)
    \/ \E i \in 1..MaxReqs :
          \/ get_now_test(i)
          \/ get_test2(i)
          \/ get_hit(i)
          \/ get_query(i)
          \/ get_store_cache(i)
          \/ get_store_time(i)
          \/ update_load(i)
          \/ \E commit_ok \in BOOLEAN : update_commit(i, commit_ok)
          \/ update_clear_cache(i)
          \/ update_clear_time(i)

SpecConc == InitConc /\ [][NextConc]_vars

-----------------------------------------------------------------------------
(* The public RSVP endpoints over a guest list the admin builds *)

GuestNames == {<<"A">>, <<"B">>}

IdInputs == {"1", "2", "x"}

StatusInputs == {"confirmado", "nao_confirmado", "talvez"}

\* The guest_ids lists posted: none, one or two ids, repeats included.
IdLists ==
    {<<>>} \cup {<<a>> : a \in IdInputs} \cup {<<a, b>> : a, b \in IdInputs}

\* A posted form: the guest_ids list and one rsvp_<id> field per id in it.
RsvpForms ==
    UNION {{[guest_ids |-> ids, rsvp |-> r] :
               r \in [{ids[k] : k \in 1..Len(ids)} -> StatusInputs]} :
           ids \in IdLists}

NextRsvp ==
    \/ \E password \in Passwords : admin_login("admin", password)
    \/ \E name \in GuestNames, commit_ok \in BOOLEAN :
           add_guest(name, <<>>, "", commit_ok)
    \/ \E guest_id \in 1..(MaxGuests + 1) : get_guest_group(guest_id)
    \/ \E form \in RsvpForms, sane_multi_rowcount \in BOOLEAN,
          commit_ok \in BOOLEAN :
           confirm_rsvp(form, sane_multi_rowcount, commit_ok)

SpecRsvp == Init /\ [][NextRsvp]_vars

-----------------------------------------------------------------------------
(* The admin's guest list and groups: names repeated with and without      *)
(* surrounding white space, guests inside and outside a group              *)

ListNames == {<<"A">>, <<"A", " ">>, <<"B">>}

NextAdmin ==
    \/ \E password \in Passwords : admin_login("admin", password)
    \/ \E name \in ListNames, group_id \in {"", "1"}, commit_ok \in BOOLEAN :
           add_guest(name, <<>>, group_id, commit_ok)
    \/ \E guest_id \in 1..MaxGuests, commit_ok \in BOOLEAN :
           delete_guest(guest_id, commit_ok)
    \/ \E name \in ListNames, commit_ok \in BOOLEAN :
           add_group(name, <<>>, commit_ok)
    \/ \E group_id \in 1..MaxGroups, commit_ok \in BOOLEAN :
           delete_group(group_id, commit_ok)

SpecAdmin == Init /\ [][NextAdmin]_vars

-----------------------------------------------------------------------------
(* The seven handlers with a required name, fed empty and blank names      *)

RequiredNames == {<<>>, <<" ">>, <<" ", "A">>}

EmptyGift ==
    [item_name |-> <<>>, description |-> <<>>, price |-> <<>>,
     image_url |-> <<>>, pix_key |-> <<>>, pix_link |-> <<>>,
     credit_card_link |-> <<>>]

\* An edit posts a changed value in every other field as well.
NextCrud ==
    \/ \E password \in Passwords : admin_login("admin", password)
    \/ \E name \in RequiredNames, commit_ok \in BOOLEAN :
           add_guest(name, <<>>, "", commit_ok)
    \/ \E name \in RequiredNames, commit_ok \in BOOLEAN :
           edit_guest(1, name, <<"9">>, "1", "confirmado", commit_ok)
    \/ \E name \in RequiredNames, commit_ok \in BOOLEAN :
           add_group(name, <<>>, commit_ok)
    \/ \E name \in RequiredNames, commit_ok \in BOOLEAN :
           edit_group(1, name, <<"d">>, commit_ok)
    \/ \E name \in RequiredNames, commit_ok \in BOOLEAN :
           add_gift([EmptyGift EXCEPT !.item_name = name], commit_ok)
    \/ \E name \in RequiredNames, commit_ok \in BOOLEAN :
           edit_gift(1, [EmptyGift EXCEPT !.item_name = name, !.price = <<"5">>],
                     FALSE, commit_ok)
    \/ \E name \in RequiredNames, commit_ok \in BOOLEAN :
           update_venue([EmptyForm EXCEPT !.name = name, !.address = <<"x">>],
                        commit_ok)

SpecCrud == Init /\ [][NextCrud]_vars

-----------------------------------------------------------------------------
(* The three handlers that write a guest's rsvp_status                     *)

NextStatus ==
    \/ \E password \in Passwords : admin_login("admin", password)
    \/ \E name \in GuestNames, commit_ok \in BOOLEAN :
           add_guest(name, <<>>, "", commit_ok)
    \/ \E guest_id \in 1..MaxGuests, rsvp_status \in StatusInputs,
          commit_ok \in BOOLEAN :
           edit_guest(guest_id, <<"A">>, <<>>, "", rsvp_status, commit_ok)
    \/ \E form \in {f \in RsvpForms : Len(f.guest_ids) = 1},
          commit_ok \in BOOLEAN :
           confirm_rsvp(form, TRUE, commit_ok)

SpecStatus == Init /\ [][NextStatus]_vars

-----------------------------------------------------------------------------
(* The bulk send on every list of recipients, setting of the environment   *)
(* and pattern of provider answers                                         *)

Phones == {"+5511", "+5522"}

EnvValues == {"None", "", "set"}

Creds == [sid : EnvValues, token : EnvValues, phone : EnvValues]

ProviderOutcomes == {"ok", "rejected"}

NextBulk ==
    \E n \in 0..MaxRecipients :
        \E phone_numbers \in [1..n -> Phones], creds \in Creds,
           provider \in [1..n -> ProviderOutcomes] :
            bulk_send(phone_numbers, "m", creds, provider)

SpecBulk == Init /\ [][NextBulk]_vars

-----------------------------------------------------------------------------
(* The admin's bulk send over guests with and without a phone, and the     *)
(* rendering of the message templates                                      *)

MessageTypes ==
    {"invite", "confirmation_reminder", "thank_you", "venue_update",
     "gift_registry", "bogus"}

\* Every variable a template names.
FullVars ==
    [date |-> "15/08/2025", time |-> "16:00", venue |-> "Salao",
     rsvp_link |-> "r.example", address |-> "Rua 1",
     gift_link |-> "g.example"]

SelectedLists == {<<>>, <<"1">>, <<"1", "2">>, <<"2", "1">>, <<"x">>}

NextSend ==
    \/ \E password \in Passwords : admin_login("admin", password)
    \/ \E name \in GuestNames, phone \in {<<>>, <<" ">>, <<"9">>} :
           add_guest(name, phone, "", TRUE)
    \/ \E message_type \in {"custom", "invite", "thank_you"},
          custom_message \in {<<>>, <<"h", "i">>},
          selected_guests \in SelectedLists,
          creds \in {[sid |-> "set", token |-> "set", phone |-> "set"],
                     [sid |-> "set", token |-> "None", phone |-> "set"]},
          provider \in [1..MaxGuests -> ProviderOutcomes] :
           send_whatsapp(message_type, custom_message, selected_guests,
                         creds, provider)
    \/ \E message_type \in MessageTypes,
          kwargs \in {<<>>, FullVars, [date |-> "15/08/2025"]} :
           wedding_message(message_type, kwargs)

SpecSend == Init /\ [][NextSend]_vars

-----------------------------------------------------------------------------
(* Every operation behind admin_required_optimized that writes, called     *)
(* with and without a login, between the public pages                      *)

GateCreds == [sid |-> "set", token |-> "set", phone |-> "set"]

NextGate ==
    \/ \E password \in Passwords : admin_login("admin", password)
    \/ admin_logout
    \/ index
    \/ add_guest(<<"A">>, <<"9">>, "", TRUE)
    \/ edit_guest(1, <<"B">>, <<>>, "1", "confirmado", TRUE)
    \/ delete_guest(1, TRUE)
    \/ add_group(<<"F">>, <<>>, TRUE)
    \/ edit_group(1, <<"G">>, <<>>, TRUE)
    \/ delete_group(1, TRUE)
    \/ add_guest_to_group(1, 1, TRUE)
    \/ remove_guest_from_group(1, TRUE)
    \/ add_gift([EmptyGift EXCEPT !.item_name = <<"P">>], TRUE)
    \/ edit_gift(1, [EmptyGift EXCEPT !.item_name = <<"Q">>], FALSE, TRUE)
    \/ delete_gift(1, TRUE)
    \/ \E name \in {<<"V">>, <<"W">>} :
           update_venue([EmptyForm EXCEPT !.name = name], TRUE)
    \/ \E message_type \in {"custom", "invite"} :
           send_whatsapp(message_type, <<"h", "i">>, <<"1">>, GateCreds,
                         [k \in 1..MaxGuests |-> "ok"])

SpecGate == Init /\ [][NextGate]_vars

-----------------------------------------------------------------------------
(* The guest search over a short guest list *)

LongNames == {<<"A", "n", "a">>, <<"A", "n", "n", "e">>}

SearchNames ==
    {<<>>, <<" ", " ", " ", " ">>, <<"A">>, <<"a", "n">>,
     <<" ", "A", "n", " ">>, <<"%", "%">>, <<"a", "n", "a">>,
     <<"A", "N", "_">>, <<" ", "A", "n", "n">>, <<"B", "o", "b">>}

NextSearch ==
    \/ \E password \in Passwords : admin_login("admin", password)
    \/ add_group(<<"F">>, <<>>, TRUE)
    \/ \E name \in LongNames, group_id \in {"", "1"}, commit_ok \in BOOLEAN :
           add_guest(name, <<>>, group_id, commit_ok)
    \/ \E name \in SearchNames : search_guest(name)

SpecSearch == Init /\ [][NextSearch]_vars

-----------------------------------------------------------------------------
(* The before_request hook create_admin under interleaved requests *)

DefaultAdmin(id) ==
    [id |-> id, username |-> "admin", password_hash |-> "admin123"]

\* A table without the constraint: every username is free.
UsernameFree_NoConstraint(table, username) == TRUE

\* "username = db.Column(..., unique=True)": the INSERT of a username that a
\* row already carries raises IntegrityError.
UsernameFree(table, username) ==
    \A i \in 1..Len(table) : table[i].username # username

\* A request arrives; "g" is new, so the hook will run.
begin_any_request ==
    /\ Len(reqs) < MaxReqs
    /\ reqs' = Append(reqs, [kind |-> "any", pc |-> "check",
                             empty_at_begin |-> admin_user = <<>>,
                             boot |-> "none"])
    /\ UNCHANGED <<clock, foreign_keys, cache, tables, admin_user, session,
                   lastOp>>

\* "if not Admin.query.first():".
create_admin_check(i) ==
    /\ Running(i, "any", "check")
    /\ reqs' = [reqs EXCEPT ![i].pc = IF admin_user = <<>> THEN "commit"
                                      ELSE "view",
                            ![i].boot = IF admin_user = <<>> THEN "none"
                                        ELSE "exists"]
    /\ UNCHANGED <<clock, foreign_keys, cache, tables, admin_user, session,
                   lastOp>>

\* "db.session.add(admin); db.session.commit()", or the exception that the
\* hook logs after its rollback: the unique constraint, or any other error
\* of the database.
create_admin_commit(i, commit_ok) ==
    /\ Running(i, "any", "commit")
    /\ IF commit_ok /\ UsernameFree(admin_user, "admin")
       THEN /\ admin_user' = Append(admin_user, DefaultAdmin(NextId(admin_user)))
            /\ reqs' = [reqs EXCEPT ![i].pc = "view", ![i].boot = "created"]
       ELSE /\ reqs' = [reqs EXCEPT
                            ![i].pc = "view",
                            ![i].boot = IF UsernameFree(admin_user, "admin")
                                        THEN "db_error" ELSE "integrity_error"]
            /\ UNCHANGED admin_user
    /\ UNCHANGED <<clock, foreign_keys, cache, tables, session, lastOp>>

\* The view function runs and the response is sent.
view_done(i) ==
    /\ Running(i, "any", "view")
    /\ reqs' = [reqs EXCEPT ![i].pc = "done"]
    /\ UNCHANGED <<clock, foreign_keys, cache, tables, admin_user, session,
                   lastOp>>

NextBoot ==
    \/ begin_any_request
    \/ \E i \in 1..MaxReqs :
          \/ create_admin_check(i)
          \/ \E commit_ok \in BOOLEAN : create_admin_commit(i, commit_ok)
          \/ view_done(i)

SpecBoot == Init /\ [][NextBoot]_vars

-----------------------------------------------------------------------------
(* add_guest and update_venue under interleaved requests, from empty tables *)

\* add_guest up to its existence check, "Guest.query.filter_by(name=name)
\* .first()".
add_guest_check(i) ==
    /\ Running(i, "add_guest", "begin")
    /\ LET r == reqs[i]
       IN reqs' = [reqs EXCEPT ![i] =
            IF ~HasAdminMarker(session) THEN Finish(r, "redirect_login")
            ELSE IF RequiredMissing(r.form.name) THEN Finish(r, "validation")
            ELSE IF NameTaken(guest, Strip(r.form.name))
            THEN Finish(r, "conflict")
            ELSE [r EXCEPT !.pc = "commit"]]
    /\ UNCHANGED <<clock, foreign_keys, cache, tables, admin_user, session,
                   lastOp>>

\* "db.session.add(new_guest); db.session.commit()": Guest.name carries no
\* unique constraint, so the INSERT does not look at the rows committed since
\* the check.
add_guest_commit(i, commit_ok) ==
    /\ Running(i, "add_guest", "commit")
    /\ LET f == reqs[i].form
           new_guest == [id |-> NextId(guest), name |-> Strip(f.name),
                         phone |-> OrNone(Strip(f.phone)),
                         group_id |-> FormGroupId(f.group_id),
                         rsvp_status |-> "pendente"]
       IN IF commit_ok /\ ForeignKeyOk(foreign_keys, guest_group,
                                       new_guest.group_id)
          THEN /\ Len(guest) < MaxGuests
               /\ guest' = Append(guest, new_guest)
               /\ reqs' = [reqs EXCEPT ![i] = Finish(@, "added")]
          ELSE /\ reqs' = [reqs EXCEPT ![i] = Finish(@, "rollback")]
               /\ UNCHANGED guest
    /\ UNCHANGED <<clock, foreign_keys, cache, venue_info, guest_group,
                   presente, admin_user, session, lastOp>>

\* The admin has logged in; every table but admin_user is empty.
InitRace ==
    /\ now = 0
    /\ ticks = 0
    /\ venue_info = <<>>
    /\ venue_cache = <<>>
    /\ venue_cache_time = NoTime
    /\ cache_fetched_at = NoTime
    /\ guest = <<>>
    /\ guest_group = <<>>
    /\ presente = <<>>
    /\ admin_user = <<DefaultAdmin(1)>>
    /\ session = TRUE
    /\ lastOp = [op |-> "admin_login", outcome |-> "ok", user |-> "admin"]
    /\ reqs = <<>>
    /\ foreign_keys \in BOOLEAN

GuestForm == [name |-> <<"A">>, phone |-> <<>>, group_id |-> ""]

NextRace ==
    \/ begin_request("add_guest", GuestForm)
    \/ begin_request("update_venue", [EmptyForm EXCEPT !.name = <<"V">>])
    \/ \E i \in 1..MaxReqs :
          \/ add_guest_check(i)
          \/ \E commit_ok \in BOOLEAN : add_guest_commit(i, commit_ok)
          \/ update_load(i)
          \/ \E commit_ok \in BOOLEAN : update_commit(i, commit_ok)
          \/ update_clear_cache(i)
          \/ update_clear_time(i)

SpecRace == InitRace /\ [][NextRace]_vars

-----------------------------------------------------------------------------
(* The guests and their groups: every handler that writes a group reference *)

\* The group_id form field: none, "0", a group's id, and ids of no group.
GroupInputs == {"", "0", "1", "2"}

NextGroup ==
    \/ admin_login("admin", "admin123")
    \/ \E name \in {<<"F">>, <<"G">>} : add_group(name, <<>>, TRUE)
    \/ \E name \in GuestNames, group_id \in GroupInputs :
           add_guest(name, <<>>, group_id, TRUE)
    \/ \E guest_id \in 1..MaxGuests, group_id \in {"", "2"} :
           edit_guest(guest_id, <<"A">>, <<>>, group_id, "pendente", TRUE)
    \/ \E guest_id \in 1..MaxGuests, group_id \in 1..(MaxGroups + 1) :
           add_guest_to_group(guest_id, group_id, TRUE)
    \/ \E guest_id \in 1..MaxGuests : remove_guest_from_group(guest_id, TRUE)
    \/ \E guest_id \in 1..MaxGuests : delete_guest(guest_id, TRUE)
    \/ \E group_id \in 1..MaxGroups : delete_group(group_id, TRUE)
    \/ \E guest_id \in 1..(MaxGuests + 1) : get_guest_group(guest_id)

SpecGroup == Init /\ [][NextGroup]_vars

-----------------------------------------------------------------------------
(* Setting and clearing one guest's group: the two JSON endpoints *)

NextMember ==
    \/ admin_login("admin", "admin123")
    \/ add_group(<<"F">>, <<>>, TRUE)
    \/ \E name \in GuestNames, group_id \in {"", "1"} :
           add_guest(name, <<>>, group_id, TRUE)
    \/ \E guest_id \in 0..(MaxGuests + 1), group_id \in 0..(MaxGroups + 1),
          commit_ok \in BOOLEAN :
           add_guest_to_group(guest_id, group_id, commit_ok)
    \/ \E guest_id \in 0..(MaxGuests + 1), commit_ok \in BOOLEAN :
           remove_guest_from_group(guest_id, commit_ok)

SpecMember == Init /\ [][NextMember]_vars

-----------------------------------------------------------------------------
(* The venue's date and time: update_venue with every kind of form *)

\* The texts "2025-09-01", "2025-02-30" (no such day) and "25:00" (no such
\* hour).
Date_2025_09_01 == <<"2", "0", "2", "5", "-", "0", "9", "-", "0", "1">>
Date_2025_02_30 == <<"2", "0", "2", "5", "-", "0", "2", "-", "3", "0">>
Time_25_00 == <<"2", "5", ":", "0", "0">>

DateInputs == {<<>>, Date_2025_08_15, Date_2025_09_01, Date_2025_02_30}

TimeInputs == {<<>>, Time_16_00, Time_25_00}

\* The venue "A" without an address and the venue "B " at the address "R",
\* with every date and time.
DateForms ==
    {[name |-> n[1], address |-> n[2], map_link |-> <<>>,
      description |-> <<>>, event_date |-> d, event_time |-> t] :
        n \in {<<<<"A">>, <<>>>>, <<<<"B", " ">>, <<"R">>>>},
        d \in DateInputs, t \in TimeInputs}

NextDates ==
    \/ admin_login("admin", "admin123")
    \/ \E f \in DateForms, commit_ok \in BOOLEAN : update_venue(f, commit_ok)

SpecDates == Init /\ [][NextDates]_vars

-----------------------------------------------------------------------------
(* Claims about the venue cache, one request at a time *)

\* C1: a call of get_cached_venue made 300 seconds or more after the call
\* that filled the cache, with no invalidation in between, reads the Data
\* Store again, however long the elapsed time (a day or more included).
C1_FreshReadAfterWindow ==
    (lastOp.op = "index" /\ lastOp.elapsed # NoTime
        /\ lastOp.elapsed >= FreshnessWindow)
    => lastOp.read

\* C2: a call of get_cached_venue made less than 300 seconds after the call
\* that filled the cache, with no invalidation in between, reads nothing and
\* returns the stored snapshot, also when that snapshot is None.
C2_NoSecondRead ==
    (lastOp.op = "index" /\ lastOp.elapsed # NoTime
        /\ lastOp.elapsed < FreshnessWindow)
    => /\ ~lastOp.read
       /\ lastOp.prev_cache # <<>>
       /\ lastOp.ret = lastOp.prev_cache[1]
       /\ venue_cache = lastOp.prev_cache

\* C2's case: a second call 150 seconds after the first, the first having
\* stored "no venue row".
C2_Witness ==
    /\ lastOp.op = "index"
    /\ lastOp.elapsed = 150
    /\ ~lastOp.read
    /\ lastOp.prev_cache = <<NoVenue>>
    /\ lastOp.ret = NoVenue

\* C3: an update_venue that commits leaves the cache and its timestamp
\* cleared and the row named as submitted, and the next get_cached_venue reads
\* the Data Store and returns that row; an update_venue that fails validation
\* or rolls back leaves the cache and its timestamp as they were.
C3_UpdateInvalidates ==
    /\ [](/\ (lastOp.op = "update_venue" /\ lastOp.outcome = "success")
             => /\ venue_cache = <<>>
                /\ venue_cache_time = NoTime
                /\ QueryFirstVenue(venue_info).name = Strip(lastOp.form.name)
          /\ (lastOp.op = "update_venue"
                 /\ lastOp.outcome \in {"validation", "rollback"})
             => /\ venue_cache = lastOp.prev_cache
                /\ venue_cache_time = lastOp.prev_time)
    /\ [][(lastOp.op = "update_venue" /\ lastOp.outcome = "success"
              /\ lastOp'.op = "index")
          => /\ lastOp'.read
             /\ lastOp'.ret = QueryFirstVenue(venue_info)
             /\ lastOp'.ret.name = Strip(lastOp.form.name)]_vars

\* C3's case: a committed update found a filled, timestamped cache and
\* cleared it.
C3_Witness ==
    /\ lastOp.op = "update_venue"
    /\ lastOp.outcome = "success"
    /\ lastOp.prev_cache # <<>>
    /\ lastOp.prev_cache[1] # NoVenue
    /\ lastOp.prev_time # NoTime
    /\ venue_cache = <<>>
    /\ venue_cache_time = NoTime

-----------------------------------------------------------------------------
(* Claims about the venue cache under interleaved requests *)

\* C4: under every interleaving of get_cached_venue with update_venue, a
\* finished get_cached_venue call has returned normally, and when what it
\* returned from the cache is not the venue row of that moment, it is a
\* snapshot that was read from the table less than 300 seconds before the
\* call.
C4_StaleWithinWindow ==
    \A i \in 1..Len(reqs) :
        (reqs[i].kind = "index" /\ reqs[i].pc = "done")
        => /\ reqs[i].outcome = "ok"
           /\ reqs[i].stale
              => /\ reqs[i].fetched_at # NoTime
                 /\ reqs[i].now - reqs[i].fetched_at < FreshnessWindow

-----------------------------------------------------------------------------
(* Claims about the RSVP endpoints *)

\* C5: get_guest_group called with an id that has no guest row reports
\* NotFound (404), not an internal error.
C5_MissingGuestIs404 ==
    (lastOp.op = "get_guest_group" /\ lastOp.id \notin Ids(guest))
    => lastOp.outcome = "404"

\* The k-th submitted id carries an accepted status and names this guest.
ValidPairFor(form, k, id) ==
    /\ form.rsvp[form.guest_ids[k]] \in RsvpChoices
    /\ IsDigit(form.guest_ids[k])
    /\ IntOf(form.guest_ids[k]) = id

\* C6: confirm_rsvp changes a guest row only to a status 'confirmado' or
\* 'nao_confirmado' submitted for that guest, and the count it reports on
\* success is the number of guest rows the statuses were applied to.
C6_CountIsRowsApplied ==
    [][lastOp'.op = "confirm_rsvp" =>
        LET form == lastOp'.form
            pairs == 1..Len(form.guest_ids)
        IN /\ Len(guest') = Len(guest)
           /\ \A i \in 1..Len(guest) :
                 guest'[i] # guest[i] =>
                     \E k \in pairs :
                         /\ ValidPairFor(form, k, guest[i].id)
                         /\ guest'[i] =
                                [guest[i] EXCEPT
                                    !.rsvp_status = form.rsvp[form.guest_ids[k]]]
           /\ lastOp'.outcome = "success" =>
                 lastOp'.confirmed_count =
                     Cardinality({i \in 1..Len(guest) :
                         \E k \in pairs : ValidPairFor(form, k, guest[i].id)})
    ]_vars

\* C7: confirm_rsvp is all-or-nothing: when it succeeds every guest with a
\* valid pair has the submitted status, and when it fails in any way no
\* guest row has changed.
C7_AllOrNothing ==
    [][lastOp'.op = "confirm_rsvp" =>
        LET form == lastOp'.form
        IN /\ lastOp'.outcome # "success" => guest' = guest
           /\ lastOp'.outcome = "success" =>
                 /\ Len(guest') = Len(guest)
                 /\ \A i \in 1..Len(guest), k \in 1..Len(form.guest_ids) :
                       ValidPairFor(form, k, guest[i].id) =>
                           guest'[i].rsvp_status = form.rsvp[form.guest_ids[k]]
    ]_vars

\* A failed confirm_rsvp whose form held a valid pair for an existing guest,
\* submitted before an id that is not a numeral: the guest keeps a status
\* other than the submitted one.
C7_Witness ==
    /\ lastOp.op = "confirm_rsvp" /\ lastOp.outcome = "error"
    /\ Len(lastOp.form.guest_ids) = 2
    /\ ~IsDigit(lastOp.form.guest_ids[2])
    /\ lastOp.form.rsvp[lastOp.form.guest_ids[2]] \in RsvpChoices
    /\ \E i \in 1..Len(guest) :
          /\ ValidPairFor(lastOp.form, 1, guest[i].id)
          /\ guest[i].rsvp_status # lastOp.form.rsvp[lastOp.form.guest_ids[1]]

-----------------------------------------------------------------------------
(* Claims about the admin's guest list and groups *)

\* C8: delete_group on a group that some guest still references is refused,
\* and the group rows and the guest rows are left unchanged.
C8_ReferencedGroupKept ==
    [][(/\ lastOp'.op = "delete_group"
        /\ lastOp'.outcome # "redirect_login"
        /\ lastOp'.id \in Ids(guest_group)
        /\ GuestsCount(guest, lastOp'.id) > 0)
       => /\ lastOp'.outcome = "conflict"
          /\ guest_group' = guest_group
          /\ guest' = guest
    ]_vars

C8_Witness ==
    /\ lastOp.op = "delete_group" /\ lastOp.outcome = "conflict"
    /\ lastOp.id \in Ids(guest_group)
    /\ GuestsCount(guest, lastOp.id) > 0

\* C9: add_guest and add_group given the name of an existing row insert no
\* row and answer with the conflict warning; after an add_guest that added a
\* guest, an add_guest with the same name leaves exactly one such guest.
C9_DuplicateNameRefused ==
    /\ [][(/\ lastOp'.op = "add_guest"
           /\ lastOp'.outcome # "redirect_login"
           /\ NamedRows(guest, Strip(lastOp'.name)) # {})
          => /\ lastOp'.outcome = "conflict"
             /\ guest' = guest
       ]_vars
    /\ [][(/\ lastOp'.op = "add_group"
           /\ lastOp'.outcome # "redirect_login"
           /\ NamedRows(guest_group, Strip(lastOp'.name)) # {})
          => /\ lastOp'.outcome = "conflict"
             /\ guest_group' = guest_group
       ]_vars
    /\ [][(/\ lastOp.op = "add_guest" /\ lastOp.outcome = "added"
           /\ lastOp'.op = "add_guest"
           /\ lastOp'.outcome # "redirect_login"
           /\ Strip(lastOp'.name) = Strip(lastOp.name))
          => /\ lastOp'.outcome = "conflict"
             /\ Cardinality(NamedRows(guest', Strip(lastOp'.name))) = 1
       ]_vars

\* The second add_guest of a name, posted with trailing white space.
C9_Witness ==
    /\ lastOp.op = "add_guest" /\ lastOp.outcome = "conflict"
    /\ lastOp.name = <<"A", " ">>
    /\ Cardinality(NamedRows(guest, <<"A">>)) = 1
    /\ Len(guest) < MaxGuests

-----------------------------------------------------------------------------
(* Claims about the required name *)

NamedOps ==
    {"add_guest", "edit_guest", "add_group", "edit_group", "add_gift",
     "edit_gift"}

\* C10: a call of add_guest, edit_guest, add_group, edit_group, add_gift,
\* edit_gift or update_venue whose name is empty after trimming changes no
\* stored row, edit_gift included although it assigns before it checks.
C10_EmptyNameChangesNothing ==
    /\ [][(/\ lastOp'.op \in NamedOps
           /\ lastOp'.outcome # "redirect_login"
           /\ Strip(lastOp'.name) = <<>>)
          => /\ lastOp'.outcome \in {"validation", "error"}
             /\ UNCHANGED tables
       ]_vars
    /\ [][(/\ lastOp'.op = "update_venue"
           /\ lastOp'.outcome # "redirect_login"
           /\ Strip(lastOp'.form.name) = <<>>)
          => /\ lastOp'.outcome = "validation"
             /\ UNCHANGED tables
       ]_vars

\* edit_gift of an existing gift with a blank name: the gift keeps its name.
C10_Witness ==
    /\ lastOp.op = "edit_gift" /\ lastOp.outcome = "validation"
    /\ lastOp.name = <<" ">>
    /\ presente # <<>>
    /\ presente[1].id = 1 /\ presente[1].item_name # <<>>
    /\ presente[1].is_active /\ presente[1].price = None

-----------------------------------------------------------------------------
(* Claims about the venue row *)

\* C11: starting from an empty venue table, update_venue calls with a
\* non-empty name leave exactly one venue row: the first call creates it and
\* every later call changes that same row; a call with date "2025-08-15" and
\* time "16:00" stores the event datetime 2025-08-15T16:00:00.
C11_SingleVenueRow ==
    /\ [](/\ Len(venue_info) <= 1
          /\ (lastOp.op = "update_venue" /\ lastOp.outcome = "success")
             => /\ Len(venue_info) = 1
                /\ venue_info[1].name = Strip(lastOp.form.name)
                /\ (/\ Strip(lastOp.form.event_date) = Date_2025_08_15
                    /\ Strip(lastOp.form.event_time) = Time_16_00)
                   => venue_info[1].event_datetime =
                          [year |-> 2025, month |-> 8, day |-> 15,
                           hour |-> 16, minute |-> 0, second |-> 0])
    /\ [][(lastOp'.op = "update_venue" /\ lastOp'.outcome = "success")
          => /\ Len(venue_info') = 1
             /\ venue_info # <<>> => venue_info'[1].id = venue_info[1].id
       ]_vars

\* A later update_venue without a date, on the row an earlier call created
\* with the date and time: the same row under its new name.
C11_Witness ==
    /\ lastOp.op = "update_venue" /\ lastOp.outcome = "success"
    /\ lastOp.form.event_date = <<>>
    /\ lastOp.form.name = <<" ", "B">>
    /\ Len(venue_info) = 1
    /\ venue_info[1].name = <<"B">>
    /\ venue_info[1].event_datetime =
           [year |-> 2025, month |-> 8, day |-> 15,
            hour |-> 16, minute |-> 0, second |-> 0]

-----------------------------------------------------------------------------
(* Claims about the rsvp status *)

\* The enum of the rsvp status.
RsvpStatuses == {"pendente", "confirmado", "nao_confirmado"}

\* C12: every guest's rsvp_status is always one of pendente, confirmado,
\* nao_confirmado, and confirm_rsvp, add_guest and edit_guest never change a
\* stored status to a value outside these three.
C12_StatusInEnum ==
    /\ [](\A i \in 1..Len(guest) : guest[i].rsvp_status \in RsvpStatuses)
    /\ [][lastOp'.op \in {"confirm_rsvp", "add_guest", "edit_guest"}
          => \A i \in 1..Len(guest) :
                (i <= Len(guest')
                 /\ guest'[i].rsvp_status # guest[i].rsvp_status)
                => guest'[i].rsvp_status \in RsvpStatuses
       ]_vars

-----------------------------------------------------------------------------
(* Claims about the bulk send *)

\* C15: send_bulk_whatsapp_messages makes exactly one single send for each
\* element of its input list, in input order, whatever the earlier sends
\* did: no send is skipped after a failure and none is repeated.
C15_OneAttemptEach ==
    lastOp.op = "send_bulk_whatsapp_messages"
    => lastOp.ret.attempts = lastOp.phone_numbers

\* Three recipients, the first send rejected by the provider, the second
\* accepted, and the same phone given twice.
C15_Witness ==
    /\ lastOp.op = "send_bulk_whatsapp_messages"
    /\ CredsOk(lastOp.creds)
    /\ lastOp.provider = <<"rejected", "ok", "rejected">>
    /\ lastOp.phone_numbers = <<"+5511", "+5522", "+5511">>
    /\ lastOp.ret.attempts = <<"+5511", "+5522", "+5511">>

\* C16: the tally of send_bulk_whatsapp_messages has total = number of
\* recipients attempted = successful + failed and one result entry per
\* attempt; two recipients of which the provider fails one give total 2,
\* successful 1, failed 1.
C16_TallyAddsUp ==
    lastOp.op = "send_bulk_whatsapp_messages"
    => LET ret == lastOp.ret
           n == Len(lastOp.phone_numbers)
       IN /\ ret.total = n
          /\ Len(ret.attempts) = ret.total
          /\ ret.successful + ret.failed = ret.total
          /\ Len(ret.results) = ret.total
          /\ \A k \in 1..Len(ret.results) :
                ret.results[k].phone = lastOp.phone_numbers[k]
          /\ ret.successful =
                Cardinality({k \in 1..Len(ret.results) : ret.results[k].success})
          /\ (/\ n = 2 /\ CredsOk(lastOp.creds)
              /\ Cardinality({k \in 1..n : lastOp.provider[k] # "ok"}) = 1)
             => ret.successful = 1 /\ ret.failed = 1

C16_Witness ==
    /\ lastOp.op = "send_bulk_whatsapp_messages"
    /\ CredsOk(lastOp.creds)
    /\ lastOp.provider = <<"ok", "rejected">>
    /\ lastOp.ret.total = 2
    /\ lastOp.ret.successful = 1
    /\ lastOp.ret.failed = 1

\* C18: when any of the three provider settings is missing, every single
\* send returns a failure with the configuration-error text and no call to
\* the provider is made; the bulk send counts every recipient as failed.
C18_NoCredsNoCall ==
    (/\ lastOp.op = "send_bulk_whatsapp_messages"
     /\ \E c \in {"sid", "token", "phone"} : lastOp.creds[c] \in {"None", ""})
    => /\ lastOp.ret.calls = <<>>
       /\ lastOp.ret.failed = Len(lastOp.phone_numbers)
       /\ lastOp.ret.successful = 0
       /\ \A k \in 1..Len(lastOp.ret.results) :
             /\ ~lastOp.ret.results[k].success
             /\ lastOp.ret.results[k].error = ConfigError

\* Only the sender's number is unset, and the provider would have accepted.
C18_Witness ==
    /\ lastOp.op = "send_bulk_whatsapp_messages"
    /\ lastOp.creds = [sid |-> "set", token |-> "set", phone |-> "None"]
    /\ lastOp.provider = <<"ok", "ok">>
    /\ lastOp.ret.failed = 2
    /\ lastOp.ret.calls = <<>>

-----------------------------------------------------------------------------
(* Claims about the admin's bulk send *)

\* C14: when send_whatsapp has dispatched to the selected guests with a
\* phone and the bulk send returned, it reports the number of sends that
\* succeeded and that failed from the bulk send's result, and does not end
\* in the general send error.
C14_ReportsTally ==
    (lastOp.op = "send_whatsapp" /\ lastOp.outcome # "redirect_login"
        /\ lastOp.dispatched)
    => /\ lastOp.outcome = "reported"
       /\ lastOp.success_count = lastOp.ret.successful
       /\ lastOp.error_count = lastOp.ret.failed

\* The ids of a list that are numerals.
SelectedIds(selected) ==
    {IntOf(selected[k]) : k \in {j \in 1..Len(selected) : IsDigit(selected[j])}}

\* C17: in send_whatsapp a selected guest without a phone is reported as
\* skipped, is never handed to a single send and appears in no result; the
\* guests attempted are exactly the selected guests that have a phone.
C17_SkippedNotAttempted ==
    (lastOp.op = "send_whatsapp" /\ lastOp.outcome # "redirect_login"
        /\ lastOp.selected # <<>>)
    => LET chosen == {i \in 1..Len(guest) :
                         guest[i].id \in SelectedIds(lastOp.selected)}
           attempted == {lastOp.ret.attempts[k] :
                            k \in 1..Len(lastOp.ret.attempts)}
       IN /\ \A i \in chosen :
                NoPhone(guest[i]) =>
                    /\ \E k \in 1..Len(lastOp.skipped) :
                          lastOp.skipped[k] = guest[i]
                    /\ guest[i] \notin attempted
                    /\ \A k \in 1..Len(lastOp.ret.results) :
                          lastOp.ret.results[k].phone # guest[i]
          /\ attempted = {guest[i] : i \in {j \in chosen : ~NoPhone(guest[j])}}

\* The template keys of the claim, under the names the code gives them.
ClaimedTemplates ==
    {"invite", "confirmation_reminder", "thank_you", "venue_update",
     "gift_registry"}

\* C19: get_wedding_message returns the empty string, without raising, for
\* a key outside the template set; for a key in the set (invite, reminder,
\* thank-you, venue-update, gift-registry) it returns the template with its
\* fields replaced by the variables supplied; and the call send_whatsapp
\* makes, with the message type and the venue, does the same.
C19_RenderTemplate ==
    /\ lastOp.op = "get_wedding_message"
       => /\ lastOp.message_type \notin ClaimedTemplates
             => lastOp.render = [raised |-> "None", ret |-> <<>>]
          /\ (lastOp.message_type \in ClaimedTemplates
              /\ lastOp.kwargs = FullVars)
             => /\ lastOp.render.raised = "None"
                /\ lastOp.render.ret # <<>>
                /\ \A i \in 1..Len(lastOp.render.ret) :
                      lastOp.render.ret[i] \notin DOMAIN FieldName
    /\ (lastOp.op = "send_whatsapp" /\ lastOp.outcome # "redirect_login")
       => lastOp.render.raised = "None"

-----------------------------------------------------------------------------
(* Claims about the admin gate *)

AdminOps ==
    {"add_guest", "edit_guest", "delete_guest", "add_group", "edit_group",
     "delete_group", "add_guest_to_group", "remove_guest_from_group",
     "add_gift", "edit_gift", "delete_gift", "update_venue", "send_whatsapp"}

\* C13: an admin operation requested with no admin marker in the session
\* is redirected to the login view, its handler body does not run, and
\* every guest, group, gift and venue row and the venue cache stay as
\* they were.
C13_GateBeforeHandler ==
    [][(~session /\ lastOp'.op \in AdminOps)
       => /\ lastOp'.outcome = "redirect_login"
          /\ UNCHANGED <<tables, venue_cache, venue_cache_time>>
    ]_vars

\* update_venue refused after a logout, on a populated store and a filled
\* cache.
C13_Witness ==
    /\ lastOp = [op |-> "update_venue", outcome |-> "redirect_login"]
    /\ ~session
    /\ guest # <<>> /\ guest_group # <<>> /\ presente # <<>>
    /\ venue_info # <<>>
    /\ venue_cache = <<venue_info[1]>>

-----------------------------------------------------------------------------
(* Claims about the guest search *)

\* C20: for every name shorter than 3 characters after trimming, the empty
\* name included, search_guest returns an empty guest list and sends no
\* query to the database.
C20_ShortPrefixNoQuery ==
    (lastOp.op = "search_guest" /\ Len(Strip(lastOp.name)) < 3)
    => lastOp.guests = <<>> /\ ~lastOp.queried

\* A two-letter prefix of a stored guest's name, posted between blanks.
C20_Witness ==
    /\ lastOp.op = "search_guest"
    /\ lastOp.name = <<" ", "A", "n", " ">>
    /\ \E i \in 1..Len(guest) : guest[i].name = <<"A", "n", "a">>
    /\ lastOp.guests = <<>> /\ ~lastOp.queried

-----------------------------------------------------------------------------
(* Claims about guests and their groups *)

\* The rows of the table as a set.
RowSet(table) == {table[i] : i \in 1..Len(table)}

\* C21: for an existing guest g, get_guest_group returns exactly the guests
\* whose group reference equals g's when g has a group reference (g
\* included), and exactly the list [g] when g has none.
C21_GroupMembersReturned ==
    [][(lastOp'.op = "get_guest_group" /\ lastOp'.id \in Ids(guest))
       => LET g == RowOf(guest, lastOp'.id)
          IN /\ lastOp'.outcome = "200"
             /\ IF g.group_id # NoGroup
                THEN RowSet(lastOp'.guests) =
                         {h \in RowSet(guest) : h.group_id = g.group_id}
                ELSE lastOp'.guests = <<g>>
    ]_vars

\* The calls that set or clear one guest's group reference.
MemberOps == {"add_guest_to_group", "remove_guest_from_group"}

\* Nothing but the group reference of the guest with this id differs.
OnlyGroupOf(id) ==
    /\ Len(guest') = Len(guest)
    /\ \A i \in 1..Len(guest) :
           IF guest[i].id = id
           THEN guest'[i] = [guest[i] EXCEPT !.group_id = guest'[i].group_id]
           ELSE guest'[i] = guest[i]
    /\ UNCHANGED <<venue_info, guest_group, presente, admin_user>>

\* C22 as claimed: add_guest_to_group and remove_guest_from_group called
\* with a guest id that matches no row report NotFound and change no row;
\* called with an existing guest id they change only that guest's group
\* reference and no other field or row.
C22_NotFoundAndFrame ==
    [][(lastOp'.op \in MemberOps /\ lastOp'.outcome # "redirect_login")
       => IF lastOp'.id \notin Ids(guest)
          THEN lastOp'.outcome = "404" /\ UNCHANGED <<tables, admin_user>>
          ELSE OnlyGroupOf(lastOp'.id)
    ]_vars

\* TRUE when the JSON body carries every id the handler asks for: neither
\* left out nor 0.
IdsGiven(op) ==
    /\ op.id # 0
    /\ op.op = "add_guest_to_group" => op.group # 0

\* C22, amended: called with a non-zero guest id (and, for
\* add_guest_to_group, a non-zero group id) that matches no row they report
\* NotFound and change no row; called with an existing guest id they change
\* nothing but that guest's group reference, which after a successful call
\* is the given group id, or null after remove_guest_from_group.
C22_OnlyGroupReference ==
    [][(lastOp'.op \in MemberOps /\ lastOp'.outcome # "redirect_login")
       => IF lastOp'.id \notin Ids(guest)
          THEN /\ IdsGiven(lastOp') => lastOp'.outcome = "404"
               /\ UNCHANGED <<tables, admin_user>>
          ELSE /\ OnlyGroupOf(lastOp'.id)
               /\ lastOp'.outcome = "200"
                  => RowOf(guest', lastOp'.id).group_id =
                         IF lastOp'.op = "add_guest_to_group"
                         THEN lastOp'.group ELSE NoGroup
    ]_vars

\* One of two guests was put into a group that does not exist, and the
\* other guest kept its own.
C22_Witness ==
    /\ lastOp.op = "add_guest_to_group" /\ lastOp.outcome = "200"
    /\ Len(guest) = 2
    /\ lastOp.group \notin Ids(guest_group)
    /\ RowOf(guest, lastOp.id).group_id = lastOp.group
    /\ \E i \in 1..Len(guest) :
           guest[i].id # lastOp.id /\ guest[i].group_id # lastOp.group

-----------------------------------------------------------------------------
(* Claims about the venue's date and time *)

\* TRUE when the form carries a date that "%Y-%m-%d" does not parse, or a
\* time that "%H:%M" does not parse after a date that parses.
Unparseable(f) ==
    LET d == Strip(f.event_date)
        t == Strip(f.event_time)
    IN \/ d # <<>> /\ ~StrpDate(d).ok
       \/ t # <<>> /\ ~StrpDateTime(Date_2025_08_15 \o <<" ">> \o t).ok

\* C23: when update_venue receives a date or time string that cannot be
\* parsed, it flashes the warning, the stored date, time and event datetime
\* keep their prior values, and the name, address, map link and description
\* of the form are stored.
C23_BadDateKeepsPrior ==
    [][(/\ lastOp'.op = "update_venue" /\ lastOp'.outcome = "success"
        /\ Unparseable(lastOp'.form))
       => LET prior == LoadVenue(venue_info)
              f == lastOp'.form
              v == venue_info'[1]
          IN /\ lastOp'.warn
             /\ v.date = prior.date /\ v.time = prior.time
             /\ v.event_datetime = prior.event_datetime
             /\ v.name = Strip(f.name)
             /\ v.address = OrNone(Strip(f.address))
             /\ v.map_link = OrNone(Strip(f.map_link))
             /\ v.description = OrNone(Strip(f.description))
    ]_vars

-----------------------------------------------------------------------------
(* Claims about the default admin account *)

\* TRUE when a row of the admin table carries the username 'admin'.
HasDefaultAdmin == \E i \in 1..Len(admin_user) : admin_user[i].username = "admin"

\* The hook never adds to a table that holds a row, and no two rows share a
\* username.
BootOnceAndUnique ==
    /\ [](\A i, j \in 1..Len(admin_user) :
             admin_user[i].username = admin_user[j].username => i = j)
    /\ [][admin_user # <<>> => admin_user' = admin_user]_vars

-----------------------------------------------------------------------------
(* Claims about the group reference *)

\* C25: in every state reached by add_guest, edit_guest, add_guest_to_group,
\* remove_guest_from_group, delete_guest and delete_group, each guest's
\* group reference is null or the id of a group row that exists.
C25_GroupReferenceExists ==
    \A i \in 1..Len(guest) :
        guest[i].group_id = NoGroup \/ guest[i].group_id \in Ids(guest_group)

-----------------------------------------------------------------------------
(* Claims about concurrent writers *)

\* C26: under every interleaving of two concurrent add_guest requests that
\* carry the same name, at most one guest row with that name exists
\* afterwards; and two concurrent update_venue requests against an empty
\* venue table leave at most one venue row.
C26_NoDuplicateFromRace ==
    /\ \A i, j \in 1..Len(guest) : guest[i].name = guest[j].name => i = j
    /\ Len(venue_info) <= 1

-----------------------------------------------------------------------------
(* Claims about the date, the time and the event datetime *)

\* The row's date and time are the two parts of its event datetime, when it
\* has one.
Consistent(v) ==
    v.event_datetime # NoDateTime
    => v.date = DateOf(v.event_datetime) /\ v.time = TimeOf(v.event_datetime)

\* C27 as claimed: in every state reached by update_venue calls (with date
\* and time, with a date only, with a time only, with neither), a venue row
\* that has an event datetime has the date part of it as its date and the
\* time part of it as its time.
C27_DateTimeConsistent ==
    \A i \in 1..Len(venue_info) : Consistent(venue_info[i])

\* The form carries a date and no time.
DateOnly(f) == Strip(f.event_date) # <<>> /\ Strip(f.event_time) = <<>>

\* C27, amended: in every state reached by update_venue calls with both date
\* and time, with a time only or with neither, a venue row that has an
\* event datetime has the date part of it as its date and the time part of
\* it as its time; a call with both that parse stores the datetime parsed
\* and the two parts of it.  (A call with a date only replaces the date
\* field alone.)
C27_ConsistentButDateOnly ==
    /\ [][(/\ lastOp'.op = "update_venue" /\ lastOp'.outcome = "success"
           /\ Strip(lastOp'.form.event_date) # <<>>
           /\ Strip(lastOp'.form.event_time) # <<>>
           /\ ~lastOp'.warn)
          => /\ venue_info'[1].event_datetime =
                    StrpDateTime(Strip(lastOp'.form.event_date) \o <<" ">>
                                 \o Strip(lastOp'.form.event_time)).datetime
             /\ Consistent(venue_info'[1])
       ]_vars
    /\ [][(/\ C27_DateTimeConsistent
           /\ ~(/\ lastOp'.op = "update_venue"
                /\ lastOp'.outcome # "redirect_login"
                /\ DateOnly(lastOp'.form)))
          => C27_DateTimeConsistent'
       ]_vars

\* A second call with date and time moved the event from 15 August to
\* 1 September, 16:00: datetime, date and time agree.
C27_Witness ==
    /\ lastOp.op = "update_venue" /\ lastOp.outcome = "success"
    /\ lastOp.form.event_date = Date_2025_09_01
    /\ lastOp.form.event_time = Time_16_00
    /\ Len(venue_info) = 1
    /\ venue_info[1].event_datetime =
           [year |-> 2025, month |-> 9, day |-> 1,
            hour |-> 16, minute |-> 0, second |-> 0]
    /\ venue_info[1].date = [year |-> 2025, month |-> 9, day |-> 1]
    /\ venue_info[1].time = [hour |-> 16, minute |-> 0, second |-> 0]

====
